---- MODULE Spec2Model ----
(***************************************************************************)
(* Verification model of the retrieval-augmented answering pipeline of     *)
(* Privacy-Preserving-CDSS: the chunker, the embedding-model singleton,    *)
(* the vector index, the retriever, the generator and the pipeline.        *)
(*                                                                         *)
(* One specification per subsystem, all over the same variables:           *)
(*   Spec       - Pipeline.query and Pipeline.query_stream over an index   *)
(*   SpecChunk  - chunk_text / chunk_by_words / chunk_by_sentences         *)
(*   SpecEmbed  - requests calling get_embedding_model concurrently        *)
(*   SpecIngest - ingest_pdf operations, one at a time                     *)
(*   SpecAssemble - format_context, get_sources and the generators called  *)
(*                  directly on a list of chunks                           *)
(*   SpecStream - generate_response_stream reading the lines of a response *)
(*   SpecConn   - two ingest_pdf calls of one process on the shared        *)
(*                database connection                                      *)
(***************************************************************************)
EXTENDS Integers, Sequences, FiniteSets, TLC

(***************************************************************************)
(* Bounds of the model.                                                    *)
(***************************************************************************)
MaxWords == 4
MaxTarget == 3
MaxOverlap == 3
MaxIter == 5
MaxDocs == 2
MaxFragments == 2
MaxChunks == 2
MaxLines == 3
NThreads == 2

(***************************************************************************)
(* Program constants (src/config/settings.py).                             *)
(***************************************************************************)
CHUNK_SIZE == 500
CHUNK_OVERLAP == 50
TOP_K_RESULTS == 5

\* The defaults of temperature, in tenths: CDSSPipeline's (src/rag/pipeline.py
\* line 63), generate_answer's (src/rag/generation.py line 27) and
\* generate_response's (src/api/ollama_client.py line 73).
PIPELINE_TEMPERATURE == 3
GENERATE_TEMPERATURE == 3   \* generate_answer(_stream), src/rag/generation.py
OLLAMA_TEMPERATURE == 7

\* The characters of a chunk that get_sources shows (src/rag/retrieval.py
\* line 117).
PREVIEW_LENGTH == 100

VARIABLES
    \* ---- chunker (src/processing/chunker.py) ----
    text,               \* the text argument, as the words text.split() yields
    entry,              \* which chunker function the caller calls
    respect_sentences,  \* chunk_text's respect_sentences argument
    arg_size,           \* chunk_size as passed by the caller (0: None or 0)
    arg_overlap,        \* chunk_overlap as passed by the caller (0: None or 0)
    cpc,                \* position of the chunker call
    chunk_size,         \* chunk_size / target_size inside chunk_by_*
    overlap,            \* overlap inside chunk_by_*
    start,              \* chunk_by_words: start
    si,                 \* chunk_by_sentences: index of the next sentence of the for loop
    current_chunk,      \* chunk_by_sentences: current_chunk (sentence numbers)
    current_word_count, \* chunk_by_sentences: current_word_count
    chunks,             \* the chunks list being built / returned
    \* ---- vector index (src/database/db_operations.py) ----
    documents,          \* the rows of table documents, in insertion order
    \* ---- embedding model (src/embedding/embed_model.py) ----
    model,              \* _model: 0 is None, else the instance
    loads,              \* how often SentenceTransformer(...) has been constructed
    \* ---- pipeline (src/rag/pipeline.py) ----
    top_k,              \* CDSSPipeline.top_k
    min_similarity,     \* CDSSPipeline.min_similarity (percent)
    temperature,        \* CDSSPipeline.temperature (tenths)
    question,           \* the question argument of both calls
    source_filter,      \* the source_filter argument of both calls
    qpc,                \* position of the query() call
    q_results,          \* query(): what search_similar returned
    q_chunks,           \* query(): chunks
    q_result,           \* query(): the QueryResult returned, NoResult before
    q_error,            \* query(): the exception raised, "none" before
    spc,                \* position of the query_stream() generator
    s_results,          \* query_stream(): what search_similar returned
    s_chunks,           \* query_stream(): chunks
    s_error,            \* query_stream(): the exception raised, "none" before
    q_service,          \* query(): how the completion service answered
    q_text,             \* query(): the text of the service's response
    s_service,          \* query_stream(): how the completion service answered
    s_fragments,        \* query_stream(): fragments the service has sent
    events,             \* query_stream(): the events yielded so far
    llm_calls,          \* the requests posted to the completion service
    backend_calls,      \* the calls made to the embedding model and the index
    \* ---- requests inside get_embedding_model (src/embedding/embed_model.py) ----
    tpc,                \* per request thread: position in get_embedding_model
    t_new,              \* per request thread: the instance it constructed, 0 if none
    t_ret,              \* per request thread: the instance returned to it, 0 if none
    \* ---- ingestion (scripts/ingest_documents.py) ----
    ipc,                \* position of the ingest_pdf call
    i_file,             \* ingest_pdf: filename
    i_reingest,         \* ingest_pdf: reingest
    i_n,                \* ingest_pdf: len(chunks)
    i_deleted,          \* ingest_pdf: rows delete_by_source deleted
    i_ret,              \* ingest_pdf: the count returned
    i_outcome,          \* how the last ingest_pdf call ended
    \* ---- format_context, get_sources, generate_answer(_stream) called directly ----
    a_pc,               \* position of the caller
    a_chunks,           \* the chunks argument
    a_query,            \* the query argument
    a_context,          \* what format_context returned
    a_sources,          \* what get_sources returned
    a_calls,            \* the requests posted to the completion service
    a_answer,           \* how generate_answer ended
    a_stream,           \* how the post of generate_answer_stream ended
    \* ---- generate_response_stream (src/api/ollama_client.py) and its consumer ----
    g_pc,               \* state of the generator
    g_body,             \* the lines of the response body, as the service emits them
    g_pos,              \* the line the loop over iter_lines() is at, 0 before the first
    g_delivered,        \* the lines whose fragment the consumer was handed, in order
    \* ---- ingest_pdf calls of one process over its database connection ----
    \* ---- (scripts/ingest_documents.py, src/database/db_connection.py) ----
    c_work,             \* table documents as seen in the connection's open transaction
    c_pc,               \* per call: position in ingest_pdf
    c_reingest,         \* per call: reingest
    c_n,                \* per call: len(chunks)
    c_ret,              \* per call: the count returned
    c_outcome,          \* per call: how the call ended
    c_exists,           \* per call: filename in existing_sources
    c_cursor,           \* per call: whether its cursor is open
    c_block             \* per call: its get_db_cursor block: none, open, failed

chunkVars == <<text, entry, respect_sentences, arg_size, arg_overlap, cpc,
               chunk_size, overlap, start, si, current_chunk,
               current_word_count, chunks>>

indexVars == <<documents>>
embedVars == <<model, loads>>
pipeVars == <<top_k, min_similarity, temperature, question, source_filter, qpc, q_results,
              q_chunks, q_result, q_error, spc, s_results, s_chunks, s_error,
              q_service, q_text, s_service, s_fragments, events, llm_calls,
              backend_calls>>

threadVars == <<tpc, t_new, t_ret>>
ingestVars == <<ipc, i_file, i_reingest, i_n, i_deleted, i_ret, i_outcome>>

assembleVars == <<a_pc, a_chunks, a_query, a_context, a_sources, a_calls,
                  a_answer, a_stream>>

genVars == <<g_pc, g_body, g_pos, g_delivered>>
connVars == <<c_work, c_pc, c_reingest, c_n, c_ret, c_outcome, c_exists,
              c_cursor, c_block>>

nonChunkVars == <<indexVars, embedVars, pipeVars, threadVars, ingestVars,
                  assembleVars, genVars, connVars>>

vars == <<chunkVars, indexVars, embedVars, pipeVars, threadVars, ingestVars,
          assembleVars, genVars, connVars>>

(***************************************************************************)
(* The parts of the state a specification does not exercise stay as the    *)
(* process starts them.                                                    *)
(***************************************************************************)
NoResult == [query |-> "none"]

IndexIdle == documents = <<>>
EmbedIdle == model = 0 /\ loads = 0
PipeIdle ==
    /\ top_k = 0 /\ min_similarity = 0 /\ temperature = PIPELINE_TEMPERATURE
    /\ question = "none" /\ source_filter = "none"
    /\ qpc = "idle" /\ q_results = <<>> /\ q_chunks = <<>>
    /\ q_result = NoResult /\ q_error = "none" /\ q_service = "none"
    /\ q_text = <<>>
    /\ spc = "idle" /\ s_results = <<>> /\ s_chunks = <<>>
    /\ s_error = "none" /\ s_service = "none" /\ s_fragments = 0
    /\ events = <<>> /\ llm_calls = <<>> /\ backend_calls = <<>>

Threads == 1..NThreads
ThreadIdle ==
    /\ tpc = [t \in Threads |-> "idle"]
    /\ t_new = [t \in Threads |-> 0]
    /\ t_ret = [t \in Threads |-> 0]
IngestIdle ==
    /\ ipc = "idle" /\ i_file = "none" /\ i_reingest = FALSE /\ i_n = 0
    /\ i_deleted = 0 /\ i_ret = 0 /\ i_outcome = "none"
AssembleIdle ==
    /\ a_pc = "idle" /\ a_chunks = <<>> /\ a_query = "none"
    /\ a_context = <<>> /\ a_sources = <<>> /\ a_calls = <<>>
    /\ a_answer = "none" /\ a_stream = "none"
GenIdle ==
    /\ g_pc = "idle" /\ g_body = <<>> /\ g_pos = 0 /\ g_delivered = <<>>

Ingestors == {1, 2}
ConnIdle ==
    /\ c_work = <<>>
    /\ c_pc = [t \in Ingestors |-> "idle"]
    /\ c_reingest = [t \in Ingestors |-> FALSE]
    /\ c_n = [t \in Ingestors |-> 0]
    /\ c_ret = [t \in Ingestors |-> 0]
    /\ c_outcome = [t \in Ingestors |-> "none"]
    /\ c_exists = [t \in Ingestors |-> FALSE]
    /\ c_cursor = [t \in Ingestors |-> FALSE]
    /\ c_block = [t \in Ingestors |-> "none"]

(***************************************************************************)
(* Words.  A word is known by the two things the sentence pattern reads:   *)
(* whether it ends with one of . ! ? and whether it starts with A-Z.       *)
(***************************************************************************)
WordKinds == {"w", "w.", "W", "W."}
EndsSentence(k) == k \in {"w.", "W."}
StartsCapital(k) == k \in {"W", "W."}

Texts == UNION {[1..n -> WordKinds] : n \in 0..MaxWords}

Min(a, b) == IF a < b THEN a ELSE b
Max(a, b) == IF a > b THEN a ELSE b

\* Python's words[a:b] on a list of n items, as the 1-based positions it takes.
PyIndex(n, i) == Max(0, Min(n, IF i < 0 THEN i + n ELSE i))
PySlice(n, a, b) ==
    LET lo == PyIndex(n, a)
        hi == PyIndex(n, b)
    IN  [k \in 1..Max(0, hi - lo) |-> lo + k]

\* Python's `x or default` on an int argument (None is modelled as 0).
OrDefault(x, d) == IF x = 0 THEN d ELSE x

(***************************************************************************)
(* chunk_by_sentences, lines 94-98: the split points of                    *)
(* (?<=[.!?])\s+(?=[A-Z]) and the sentences between them, each as the      *)
(* pair <<first word, last word>>.                                         *)
(***************************************************************************)
SplitAfter(t) ==
    {i \in 1..(Len(t) - 1) : EndsSentence(t[i]) /\ StartsCapital(t[i + 1])}

RECURSIVE SentencesFrom(_, _)
SentencesFrom(t, first) ==
    IF first > Len(t) THEN <<>>
    ELSE LET later == {i \in SplitAfter(t) : i >= first}
             last  == IF later = {} THEN Len(t)
                      ELSE CHOOSE i \in later : \A j \in later : i <= j
         IN  <<<<first, last>>>> \o SentencesFrom(t, last + 1)

Sentences(t) == SentencesFrom(t, 1)

\* len(sentence.split())
SentenceWords(t, s) == Sentences(t)[s][2] - Sentences(t)[s][1] + 1

(***************************************************************************)
(* chunk_by_sentences, lines 115-123: the sentences kept for overlap, the  *)
(* longest suffix of current_chunk whose word count stays within overlap.  *)
(***************************************************************************)
RECURSIVE OverlapFrom(_, _, _, _)
OverlapFrom(t, cur, k, budget) ==
    IF k = 0 THEN <<>>
    ELSE IF SentenceWords(t, cur[k]) <= budget
         THEN OverlapFrom(t, cur, k - 1, budget - SentenceWords(t, cur[k]))
              \o <<cur[k]>>
         ELSE <<>>

\* Mutant: the overlap is taken from the front of current_chunk (the loop
\* runs over current_chunk instead of reversed(current_chunk)).
RECURSIVE OverlapFromFront(_, _, _, _)
OverlapFromFront(t, cur, k, budget) ==
    IF k > Len(cur) THEN <<>>
    ELSE IF SentenceWords(t, cur[k]) <= budget
         THEN <<cur[k]>> \o
              OverlapFromFront(t, cur, k + 1, budget - SentenceWords(t, cur[k]))
         ELSE <<>>

OverlapSentencesFront(t, cur, ov) == OverlapFromFront(t, cur, 1, ov)

\* Mutant: at most the last sentence of current_chunk is kept.
OverlapSentencesLastOnly(t, cur, ov) ==
    IF cur # <<>> /\ SentenceWords(t, cur[Len(cur)]) <= ov
    THEN <<cur[Len(cur)]>>
    ELSE <<>>

\* Mutant: the last sentence of current_chunk is kept whatever its length.
OverlapSentencesKeepsLast(t, cur, ov) ==
    IF cur # <<>> THEN <<cur[Len(cur)]>> ELSE <<>>

OverlapSentences(t, cur, ov) == OverlapFrom(t, cur, Len(cur), ov)

RECURSIVE WordCount(_, _)
WordCount(t, cur) ==
    IF cur = <<>> THEN 0
    ELSE SentenceWords(t, Head(cur)) + WordCount(t, Tail(cur))

(***************************************************************************)
(* Initial states of the chunker: a caller about to call one of the three  *)
(* functions with a text and the two sizes.                                *)
(***************************************************************************)
ChunkIdle ==
    /\ cpc = "idle" /\ text = <<>> /\ entry = "none"
    /\ respect_sentences = TRUE /\ arg_size = 0 /\ arg_overlap = 0
    /\ chunk_size = 0 /\ overlap = 0 /\ start = 0 /\ si = 0
    /\ current_chunk = <<>> /\ current_word_count = 0 /\ chunks = <<>>

InitChunk ==
    /\ text \in Texts
    /\ entry \in {"chunk_text", "chunk_by_words", "chunk_by_sentences"}
    /\ respect_sentences \in (IF entry = "chunk_text" THEN BOOLEAN ELSE {TRUE})
    /\ arg_size \in (IF entry = "chunk_text" THEN 0..MaxTarget ELSE 1..MaxTarget)
    /\ arg_overlap \in 0..MaxOverlap
    /\ cpc = "call"
    /\ chunk_size = 0 /\ overlap = 0 /\ start = 0 /\ si = 0
    /\ current_chunk = <<>> /\ current_word_count = 0 /\ chunks = <<>>
    /\ IndexIdle /\ EmbedIdle /\ PipeIdle /\ ThreadIdle /\ IngestIdle
    /\ AssembleIdle /\ GenIdle /\ ConnIdle

\* Mutant: chunk_by_sentences returns [text] whenever there are no sentences
\* (line 101 without its test of text.strip()).
EnterModeReturnsBlank(mode, size, ov) ==
    /\ chunk_size' = size
    /\ overlap' = ov
    /\ start' = 0
    /\ current_chunk' = <<>>
    /\ current_word_count' = 0
    /\ IF mode = "sentences"
       THEN IF Sentences(text) = <<>>
            THEN cpc' = "done" /\ si' = 0 /\ chunks' = <<<<>>>>
            ELSE cpc' = "sentences" /\ si' = 1 /\ chunks' = <<>>
       ELSE cpc' = "words" /\ si' = 0 /\ chunks' = <<>>

\* Entering chunk_by_words / chunk_by_sentences with the given sizes.
EnterMode(mode, size, ov) ==
    /\ chunk_size' = size
    /\ overlap' = ov
    /\ start' = 0
    /\ current_chunk' = <<>>
    /\ current_word_count' = 0
    /\ chunks' = <<>>
    /\ IF mode = "sentences"
       THEN IF Sentences(text) = <<>>
            THEN cpc' = "done" /\ si' = 0          \* line 100-101, text is blank
            ELSE cpc' = "sentences" /\ si' = 1
       ELSE cpc' = "words" /\ si' = 0

\* chunk_text, lines 47-57.
ChunkText ==
    /\ cpc = "call" /\ entry = "chunk_text"
    /\ IF text = <<>>
       THEN /\ cpc' = "done"
            /\ chunks' = <<>>
            /\ UNCHANGED <<chunk_size, overlap, start, si, current_chunk,
                           current_word_count>>
       ELSE EnterMode(IF respect_sentences THEN "sentences" ELSE "words",
                      OrDefault(arg_size, CHUNK_SIZE),
                      OrDefault(arg_overlap, CHUNK_OVERLAP))
    /\ UNCHANGED <<text, entry, respect_sentences, arg_size, arg_overlap>>
    /\ UNCHANGED nonChunkVars

\* A direct call of chunk_by_words(text, chunk_size, overlap).
CallChunkByWords ==
    /\ cpc = "call" /\ entry = "chunk_by_words"
    /\ EnterMode("words", arg_size, arg_overlap)
    /\ UNCHANGED <<text, entry, respect_sentences, arg_size, arg_overlap>>
    /\ UNCHANGED nonChunkVars

\* A direct call of chunk_by_sentences(text, target_size, overlap).
CallChunkBySentences ==
    /\ cpc = "call" /\ entry = "chunk_by_sentences"
    /\ EnterMode("sentences", arg_size, arg_overlap)
    /\ UNCHANGED <<text, entry, respect_sentences, arg_size, arg_overlap>>
    /\ UNCHANGED nonChunkVars

\* Mutant: the loop gives up once the next window would not be a full one
\* (the break compares with chunk_size instead of overlap).
ChunkByWordsStepDropsTail ==
    /\ cpc = "words"
    /\ start < Len(text)
    /\ Len(chunks) < MaxIter
    /\ LET end == start + chunk_size
       IN  /\ chunks' = Append(chunks, PySlice(Len(text), start, end))
           /\ start' = end - overlap
           /\ cpc' = IF start' >= Len(text) - chunk_size THEN "done" ELSE "words"
    /\ UNCHANGED <<text, entry, respect_sentences, arg_size, arg_overlap,
                   chunk_size, overlap, si, current_chunk, current_word_count>>
    /\ UNCHANGED nonChunkVars

\* chunk_by_words, lines 73-83: one iteration of the while loop.
ChunkByWordsStep ==
    /\ cpc = "words"
    /\ start < Len(text)
    /\ Len(chunks) < MaxIter
    /\ LET end == start + chunk_size
       IN  /\ chunks' = Append(chunks, PySlice(Len(text), start, end))
           /\ start' = end - overlap
           /\ cpc' = IF start' >= Len(text) - overlap THEN "done" ELSE "words"
    /\ UNCHANGED <<text, entry, respect_sentences, arg_size, arg_overlap,
                   chunk_size, overlap, si, current_chunk, current_word_count>>
    /\ UNCHANGED nonChunkVars

\* chunk_by_words, line 73 and 85: the while condition fails, return chunks.
ChunkByWordsExit ==
    /\ cpc = "words"
    /\ ~(start < Len(text))
    /\ cpc' = "done"
    /\ UNCHANGED <<text, entry, respect_sentences, arg_size, arg_overlap,
                   chunk_size, overlap, start, si, current_chunk,
                   current_word_count, chunks>>
    /\ UNCHANGED nonChunkVars

\* chunk_by_sentences, lines 107-129: one iteration of the for loop.
\* Mutant: a chunk is closed as soon as the sentence would fill it.
ChunkBySentencesStepClosesAtTarget ==
    /\ cpc = "sentences"
    /\ si <= Len(Sentences(text))
    /\ LET sentence_words == SentenceWords(text, si)
           close == /\ current_word_count + sentence_words >= chunk_size
                    /\ current_chunk # <<>>
           kept  == OverlapSentences(text, current_chunk, overlap)
       IN  /\ chunks' = IF close THEN Append(chunks, current_chunk) ELSE chunks
           /\ current_chunk' =
                  Append(IF close THEN kept ELSE current_chunk, si)
           /\ current_word_count' =
                  (IF close THEN WordCount(text, kept) ELSE current_word_count)
                  + sentence_words
    /\ si' = si + 1
    /\ UNCHANGED <<text, entry, respect_sentences, arg_size, arg_overlap, cpc,
                   chunk_size, overlap, start>>
    /\ UNCHANGED nonChunkVars

ChunkBySentencesStep ==
    /\ cpc = "sentences"
    /\ si <= Len(Sentences(text))
    /\ LET sentence_words == SentenceWords(text, si)
           close == /\ current_word_count + sentence_words > chunk_size
                    /\ current_chunk # <<>>
           kept  == OverlapSentences(text, current_chunk, overlap)
       IN  /\ chunks' = IF close THEN Append(chunks, current_chunk) ELSE chunks
           /\ current_chunk' =
                  Append(IF close THEN kept ELSE current_chunk, si)
           /\ current_word_count' =
                  (IF close THEN WordCount(text, kept) ELSE current_word_count)
                  + sentence_words
    /\ si' = si + 1
    /\ UNCHANGED <<text, entry, respect_sentences, arg_size, arg_overlap, cpc,
                   chunk_size, overlap, start>>
    /\ UNCHANGED nonChunkVars

\* chunk_by_sentences, lines 131-135: the last chunk, return chunks.
ChunkBySentencesFinish ==
    /\ cpc = "sentences"
    /\ si > Len(Sentences(text))
    /\ chunks' = IF current_chunk # <<>> THEN Append(chunks, current_chunk)
                 ELSE chunks
    /\ cpc' = "done"
    /\ UNCHANGED <<text, entry, respect_sentences, arg_size, arg_overlap,
                   chunk_size, overlap, start, si, current_chunk,
                   current_word_count>>
    /\ UNCHANGED nonChunkVars

NextChunk ==
    \/ ChunkText
    \/ CallChunkByWords
    \/ CallChunkBySentences
    \/ ChunkByWordsStep
    \/ ChunkByWordsExit
    \/ ChunkBySentencesStep
    \/ ChunkBySentencesFinish

SpecChunk == InitChunk /\ [][NextChunk]_vars

(***************************************************************************)
(* The vector index.  A row of table documents is known by its place in    *)
(* insertion order (its id), its source_file, its chunk_index and its      *)
(* embedding.  The index of a query run holds what ingestion leaves: per   *)
(* source one batch of rows with chunk_index 0..n-1.                       *)
(***************************************************************************)
Sources == {"a.pdf", "b.pdf"}
Embeddings == {1, 2}
Questions == {"q1", "q2"}
MinSimilarities == {0, 80}
TopKs == {0, 1}
Temperatures == {PIPELINE_TEMPERATURE, OLLAMA_TEMPERATURE}

\* The content column: the text of chunk k of source s and its length in
\* characters.  The stored texts are one character over the preview length
\* at even positions and of exactly the preview length at odd ones.
ChunkContent(s, k) ==
    [text |-> <<s, k>>,
     len |-> IF k % 2 = 0 THEN PREVIEW_LENGTH + 1 ELSE PREVIEW_LENGTH]

Batch(s, n) ==
    {[i \in 1..n |-> [content |-> ChunkContent(s, i - 1), source_file |-> s,
                      chunk_index |-> i - 1, embedding |-> f[i]]] :
        f \in [1..n -> Embeddings]}

IndexContents ==
    {<<>>}
    \cup UNION {Batch(s, n) : s \in Sources, n \in 1..MaxDocs}
    \cup UNION {{x \o y : x \in Batch(p[1], p[3]), y \in Batch(p[2], p[4])} :
                p \in {q \in Sources \X Sources \X (1..MaxDocs) \X (1..MaxDocs) :
                          q[1] # q[2] /\ q[3] + q[4] <= MaxDocs}}

\* embed_text(query): model.encode is a function of the text.
QueryEmbedding(q) == IF q = "q1" THEN 1 ELSE 3

\* 1 - (embedding <=> query), in percent.
Similarity(a, b) == 100 - 40 * (IF a > b THEN a - b ELSE b - a)

(***************************************************************************)
(* search_similar, lines 132-169: the rows of the source (all rows without *)
(* a filter) ordered by distance to the query, the first top_k of them.    *)
(* ORDER BY names the distance alone, so rows at the same distance come in *)
(* any order: SearchSimilar is the set of the answers the query can give.  *)
(***************************************************************************)
\* Mutant: search_similar without the WHERE clause of line 144.
MatchingAll(docs, filter) == 1..Len(docs)

Matching(docs, filter) ==
    {i \in 1..Len(docs) : filter = "none" \/ docs[i].source_file = filter}

RECURSIVE OrderedBy(_, _, _, _)
OrderedBy(docs, qe, rows, k) ==
    IF k = 0 \/ rows = {} THEN {<<>>}
    ELSE LET best == {i \in rows : \A j \in rows :
                         Similarity(qe, docs[i].embedding)
                             >= Similarity(qe, docs[j].embedding)}
         IN  UNION {{<<i>> \o r : r \in OrderedBy(docs, qe, rows \ {i}, k - 1)} :
                    i \in best}

ResultRow(docs, qe, i) ==
    [id |-> i, content |-> docs[i].content,
     source_file |-> docs[i].source_file,
     chunk_index |-> docs[i].chunk_index,
     similarity |-> Similarity(qe, docs[i].embedding)]

SearchSimilar(docs, qe, k, filter) ==
    {[j \in 1..Len(r) |-> ResultRow(docs, qe, r[j])] :
        r \in OrderedBy(docs, qe, Matching(docs, filter), k)}

(***************************************************************************)
(* get_embedding_model, lines 43-78, run by one thread: the cached model,  *)
(* or a model constructed now, or the constructor's exception.             *)
(***************************************************************************)
GetEmbeddingModel ==
    IF model # 0
    THEN {[ok |-> TRUE, model |-> model, loads |-> loads]}
    ELSE {[ok |-> TRUE, model |-> loads + 1, loads |-> loads + 1],
          [ok |-> FALSE, model |-> 0, loads |-> loads]}

\* Mutant: retrieve_relevant_chunks without the filter of lines 63-67.
FilterBySimilarityOff(results, min_sim) == results

\* retrieve_relevant_chunks, lines 63-67.
FilterBySimilarity(results, min_sim) ==
    IF min_sim > 0
    THEN SelectSeq(results, LAMBDA r : r.similarity >= min_sim)
    ELSE results

(***************************************************************************)
(* retrieve_relevant_chunks, lines 48-71: the outcomes of one call.  The   *)
(* embedding model may fail to load and the database may be unreachable;   *)
(* both exceptions pass through.                                           *)
(***************************************************************************)
\* Mutant: the search is tried a second time when the database fails.
RetrieveRelevantChunksRetries(query, k, filter, min_sim) ==
    UNION {
        IF ~m.ok
        THEN {[error |-> "embedding_model", model |-> m.model,
               loads |-> m.loads, results |-> <<>>, chunks |-> <<>>,
               calls |-> <<"embed_text">>]}
        ELSE {[error |-> "database", model |-> m.model, loads |-> m.loads,
               results |-> <<>>, chunks |-> <<>>,
               calls |-> <<"embed_text", "search_similar", "search_similar">>]}
             \cup
             {[error |-> "none", model |-> m.model, loads |-> m.loads,
               results |-> r, chunks |-> FilterBySimilarity(r, min_sim),
               calls |-> c] :
                 r \in SearchSimilar(documents, QueryEmbedding(query),
                                     OrDefault(k, TOP_K_RESULTS), filter),
                 c \in {<<"embed_text", "search_similar">>,
                        <<"embed_text", "search_similar", "search_similar">>}}
        : m \in GetEmbeddingModel}

\* Mutant: a failure of the embedding model is taken as "nothing found".
RetrieveRelevantChunksDegrades(query, k, filter, min_sim) ==
    UNION {
        IF ~m.ok
        THEN {[error |-> "none", model |-> m.model,
               loads |-> m.loads, results |-> <<>>, chunks |-> <<>>,
               calls |-> <<"embed_text">>]}
        ELSE {[error |-> "database", model |-> m.model, loads |-> m.loads,
               results |-> <<>>, chunks |-> <<>>,
               calls |-> <<"embed_text", "search_similar">>]}
             \cup
             {[error |-> "none", model |-> m.model, loads |-> m.loads,
               results |-> r, chunks |-> FilterBySimilarity(r, min_sim),
               calls |-> <<"embed_text", "search_similar">>] :
                 r \in SearchSimilar(documents, QueryEmbedding(query),
                                     OrDefault(k, TOP_K_RESULTS), filter)}
        : m \in GetEmbeddingModel}

RetrieveRelevantChunks(query, k, filter, min_sim) ==
    UNION {
        IF ~m.ok
        THEN {[error |-> "embedding_model", model |-> m.model,
               loads |-> m.loads, results |-> <<>>, chunks |-> <<>>,
               calls |-> <<"embed_text">>]}
        ELSE {[error |-> "database", model |-> m.model, loads |-> m.loads,
               results |-> <<>>, chunks |-> <<>>,
               calls |-> <<"embed_text", "search_similar">>]}
             \cup
             {[error |-> "none", model |-> m.model, loads |-> m.loads,
               results |-> r, chunks |-> FilterBySimilarity(r, min_sim),
               calls |-> <<"embed_text", "search_similar">>] :
                 r \in SearchSimilar(documents, QueryEmbedding(query),
                                     OrDefault(k, TOP_K_RESULTS), filter)}
        : m \in GetEmbeddingModel}

(***************************************************************************)
(* format_context (lines 85-102), get_sources (lines 112-120) and          *)
(* build_rag_prompt (src/api/prompts.py lines 79-85).  A text is the       *)
(* sequence of its parts; the empty string is <<>>.                        *)
(***************************************************************************)
SENTINEL == <<[part |-> "No relevant information found in the knowledge base."]>>
FALLBACK_ANSWER == <<[part |-> "I couldn't find relevant information"]>>

SEPARATOR == [part |-> "\n\n---\n\n"]

\* sep.join(parts)
RECURSIVE Join(_, _)
Join(sep, parts) ==
    IF parts = <<>> THEN <<>>
    ELSE IF Len(parts) = 1 THEN parts
    ELSE Join(sep, SubSeq(parts, 1, Len(parts) - 1))
             \o <<sep, parts[Len(parts)]>>

\* Mutant: the blocks are numbered by enumerate(chunks), from 0.
FormatContextFromZero(cs) ==
    IF cs = <<>> THEN SENTINEL
    ELSE Join(SEPARATOR,
              [i \in 1..Len(cs) |->
                  [part |-> "block", label |-> i - 1,
                   source |-> cs[i].source_file,
                   relevance |-> cs[i].similarity, content |-> cs[i].content]])

\* format_context with include_sources left at its default: block i is
\* "[Source i: <source_file> (relevance: <similarity>)]\n<content>".
FormatContext(cs) ==
    IF cs = <<>> THEN SENTINEL
    ELSE Join(SEPARATOR,
              [i \in 1..Len(cs) |->
                  [part |-> "block", label |-> i, source |-> cs[i].source_file,
                   relevance |-> cs[i].similarity, content |-> cs[i].content]])

\* chunk.get('content', '')[:100] + "...": the first characters of the text
\* and the three dots, whatever the length of the text.
Preview(content) ==
    [of |-> content.text, chars |-> Min(content.len, PREVIEW_LENGTH),
     ellipsis |-> TRUE]

\* Mutant: the citations are listed from the last chunk to the first.
GetSourcesReversed(cs) ==
    [i \in 1..Len(cs) |->
        [source_file |-> cs[Len(cs) + 1 - i].source_file,
         chunk_index |-> cs[Len(cs) + 1 - i].chunk_index,
         similarity |-> cs[Len(cs) + 1 - i].similarity,
         preview |-> Preview(cs[Len(cs) + 1 - i].content)]]

GetSources(cs) ==
    [i \in 1..Len(cs) |->
        [source_file |-> cs[i].source_file, chunk_index |-> cs[i].chunk_index,
         similarity |-> cs[i].similarity, preview |-> Preview(cs[i].content)]]

BuildRagPrompt(query, context) ==
    IF context = <<>> \/ context = SENTINEL
    THEN [template |-> "NO_CONTEXT_PROMPT", query |-> query]
    ELSE [template |-> "RAG_PROMPT_TEMPLATE", context |-> context,
          query |-> query]

(***************************************************************************)
(* A pipeline, an index and a caller who asks one question through         *)
(* query(), through query_stream(), or through query() and then            *)
(* query_stream().                                                         *)
(***************************************************************************)
Init ==
    /\ ChunkIdle
    /\ documents \in IndexContents
    /\ EmbedIdle
    /\ top_k \in {OrDefault(k, TOP_K_RESULTS) : k \in TopKs}
    /\ min_similarity \in MinSimilarities
    /\ temperature \in Temperatures
    /\ question \in Questions
    /\ source_filter \in {"none"} \cup Sources
    /\ qpc = "idle" /\ q_results = <<>> /\ q_chunks = <<>>
    /\ q_result = NoResult /\ q_error = "none" /\ q_service = "none"
    /\ q_text = <<>>
    /\ spc = "idle" /\ s_results = <<>> /\ s_chunks = <<>>
    /\ s_error = "none" /\ s_service = "none" /\ s_fragments = 0
    /\ events = <<>> /\ llm_calls = <<>> /\ backend_calls = <<>>
    /\ ThreadIdle /\ IngestIdle /\ AssembleIdle /\ GenIdle /\ ConnIdle

QueryAtRest == qpc \in {"idle", "returned", "raised"}

\* The calls a pipeline call makes to its collaborators, as logged.
CallsBy(by, calls) == [i \in 1..Len(calls) |-> [by |-> by, to |-> calls[i]]]

pipeFrame == <<chunkVars, indexVars, threadVars, ingestVars, assembleVars,
               genVars, connVars, top_k,
               min_similarity, temperature, question, source_filter>>

\* query, lines 108-115: retrieve_relevant_chunks with the pipeline's
\* top_k and min_similarity.
QueryRetrieve ==
    /\ qpc = "idle" /\ spc = "idle"
    /\ \E o \in RetrieveRelevantChunks(question, top_k, source_filter,
                                       min_similarity) :
          /\ model' = o.model /\ loads' = o.loads
          /\ q_results' = o.results /\ q_chunks' = o.chunks
          /\ q_error' = o.error
          /\ backend_calls' = backend_calls \o CallsBy("query", o.calls)
          /\ qpc' = IF o.error = "none" THEN "retrieved" ELSE "raised"
    /\ UNCHANGED <<pipeFrame, q_result, q_service, q_text, spc, s_results, s_chunks,
                   s_error, s_service, s_fragments, events, llm_calls>>

\* The answers of the completion service to generate_response
\* (src/api/ollama_client.py lines 109-134): a text, the empty text, a status
\* other than 200, or no answer in time.
ServiceAnswers ==
    {[service |-> "ok", text |-> <<[part |-> "answer"]>>],
     [service |-> "ok", text |-> <<>>],
     [service |-> "error_status", text |-> <<>>],
     [service |-> "timeout", text |-> <<>>]}

\* Mutant: query calls generate_answer without its temperature argument.
QueryRespondDefaultTemperature ==
    /\ qpc = "retrieved"
    /\ IF q_chunks = <<>>
       THEN /\ q_result' = [query |-> question, answer |-> FALLBACK_ANSWER,
                            sources |-> <<>>, context_used |-> <<>>,
                            chunks_retrieved |-> 0]
            /\ qpc' = "returned"
            /\ UNCHANGED <<q_error, q_service, q_text, llm_calls>>
       ELSE LET context == FormatContext(q_chunks)
                sources == GetSources(q_chunks)
            IN  /\ llm_calls' = Append(llm_calls,
                       [stream |-> FALSE, temperature |-> GENERATE_TEMPERATURE,
                        prompt |-> BuildRagPrompt(question, context)])
                /\ \E a \in ServiceAnswers :
                      /\ q_service' = a.service /\ q_text' = a.text
                      /\ IF a.service = "ok"
                         THEN /\ q_result' =
                                    [query |-> question, answer |-> a.text,
                                     sources |-> sources,
                                     context_used |-> context,
                                     chunks_retrieved |-> Len(q_chunks)]
                              /\ qpc' = "returned"
                              /\ UNCHANGED q_error
                         ELSE /\ qpc' = "raised"
                              /\ q_error' = "completion_service"
                              /\ UNCHANGED q_result
    /\ UNCHANGED <<pipeFrame, embedVars, backend_calls, q_results, q_chunks, spc, s_results,
                   s_chunks, s_error, s_service, s_fragments, events>>

\* Mutant: query without the short-circuit of lines 117-125.
QueryRespondNoShortCircuit ==
    /\ qpc = "retrieved"
    /\ LET context == FormatContext(q_chunks)
           sources == GetSources(q_chunks)
       IN  /\ llm_calls' = Append(llm_calls,
                  [stream |-> FALSE, temperature |-> temperature,
                   prompt |-> BuildRagPrompt(question, context)])
           /\ \E a \in ServiceAnswers :
                 /\ q_service' = a.service /\ q_text' = a.text
                 /\ IF a.service = "ok"
                    THEN /\ q_result' =
                               [query |-> question, answer |-> a.text,
                                sources |-> sources, context_used |-> context,
                                chunks_retrieved |-> Len(q_chunks)]
                         /\ qpc' = "returned"
                         /\ UNCHANGED q_error
                    ELSE /\ qpc' = "raised"
                         /\ q_error' = "completion_service"
                         /\ UNCHANGED q_result
    /\ UNCHANGED <<pipeFrame, embedVars, backend_calls, q_results, q_chunks, spc, s_results,
                   s_chunks, s_error, s_service, s_fragments, events>>

\* query, lines 117-148: the fallback result when there are no chunks, else
\* format_context, get_sources, generate_answer and the QueryResult.
QueryRespond ==
    /\ qpc = "retrieved"
    /\ IF q_chunks = <<>>
       THEN /\ q_result' = [query |-> question, answer |-> FALLBACK_ANSWER,
                            sources |-> <<>>, context_used |-> <<>>,
                            chunks_retrieved |-> 0]
            /\ qpc' = "returned"
            /\ UNCHANGED <<q_error, q_service, q_text, llm_calls>>
       ELSE LET context == FormatContext(q_chunks)
                sources == GetSources(q_chunks)
            IN  /\ llm_calls' = Append(llm_calls,
                       [stream |-> FALSE, temperature |-> temperature,
                        prompt |-> BuildRagPrompt(question, context)])
                /\ \E a \in ServiceAnswers :
                      /\ q_service' = a.service /\ q_text' = a.text
                      /\ IF a.service = "ok"
                         THEN /\ q_result' =
                                    [query |-> question, answer |-> a.text,
                                     sources |-> sources,
                                     context_used |-> context,
                                     chunks_retrieved |-> Len(q_chunks)]
                              /\ qpc' = "returned"
                              /\ UNCHANGED q_error
                         ELSE /\ qpc' = "raised"
                              /\ q_error' = "completion_service"
                              /\ UNCHANGED q_result
    /\ UNCHANGED <<pipeFrame, embedVars, backend_calls, q_results, q_chunks, spc, s_results,
                   s_chunks, s_error, s_service, s_fragments, events>>

Event(type, content) == [type |-> type, content |-> content]

\* Mutant: query_stream without the test of lines 168-170.
StreamRetrieveNoEmptyCheck ==
    /\ spc = "idle" /\ QueryAtRest
    /\ \E o \in RetrieveRelevantChunks(question, top_k, source_filter, 0) :
          /\ model' = o.model /\ loads' = o.loads
          /\ s_results' = o.results /\ s_chunks' = o.chunks
          /\ s_error' = o.error
          /\ backend_calls' = backend_calls \o CallsBy("query_stream", o.calls)
          /\ IF o.error # "none"
             THEN spc' = "raised" /\ UNCHANGED events
             ELSE /\ events' = <<Event("sources", GetSources(o.chunks))>>
                  /\ spc' = "sources_yielded"
    /\ UNCHANGED <<pipeFrame, qpc, q_results, q_chunks, q_result, q_error,
                   q_service, q_text, s_service, s_fragments, llm_calls>>

\* query_stream, lines 161-176, the consumer's first pull: retrieval with
\* the pipeline's top_k, then the `error` event or the `sources` event.
StreamRetrieve ==
    /\ spc = "idle" /\ QueryAtRest
    /\ \E o \in RetrieveRelevantChunks(question, top_k, source_filter, 0) :
          /\ model' = o.model /\ loads' = o.loads
          /\ s_results' = o.results /\ s_chunks' = o.chunks
          /\ s_error' = o.error
          /\ backend_calls' = backend_calls \o CallsBy("query_stream", o.calls)
          /\ IF o.error # "none"
             THEN spc' = "raised" /\ UNCHANGED events
             ELSE IF o.chunks = <<>>
             THEN /\ events' = <<Event("error", <<>>)>>
                  /\ spc' = "error_yielded"
             ELSE /\ events' = <<Event("sources", GetSources(o.chunks))>>
                  /\ spc' = "sources_yielded"
    /\ UNCHANGED <<pipeFrame, qpc, q_results, q_chunks, q_result, q_error,
                   q_service, q_text, s_service, s_fragments, llm_calls>>

\* query_stream, line 170: the pull after the `error` event ends the generator.
StreamReturnAfterError ==
    /\ spc = "error_yielded"
    /\ spc' = "finished"
    /\ UNCHANGED <<pipeFrame, embedVars, backend_calls, qpc, q_results, q_chunks, q_result,
                   q_error, q_service, q_text,
                   s_results, s_chunks, s_error, s_service,
                   s_fragments, events, llm_calls>>

\* generate_answer_stream (src/rag/generation.py lines 75-83) and
\* generate_response_stream (src/api/ollama_client.py lines 165-171): the
\* prompt is built and posted; the status of the response is not looked at.
StreamPost ==
    /\ spc = "sources_yielded"
    /\ llm_calls' = Append(llm_calls,
           [stream |-> TRUE, temperature |-> temperature,
            prompt |-> BuildRagPrompt(question, FormatContext(s_chunks))])
    /\ \E a \in {"ok", "error_status", "timeout"} :
          /\ s_service' = a
          /\ IF a = "timeout"
             THEN spc' = "raised" /\ s_error' = "completion_service"
             ELSE spc' = "reading" /\ UNCHANGED s_error
    /\ UNCHANGED <<pipeFrame, embedVars, backend_calls, qpc, q_results, q_chunks, q_result,
                   q_error, q_service, q_text,
                   s_results, s_chunks, s_fragments, events>>

\* generate_response_stream, lines 172-176, and query_stream, line 180: a
\* line of a 200 response that carries a fragment and is not the last one.
StreamFragment ==
    /\ spc = "reading" /\ s_service = "ok"
    /\ s_fragments < MaxFragments
    /\ s_fragments' = s_fragments + 1
    /\ events' = Append(events, Event("answer_chunk", s_fragments'))
    /\ UNCHANGED <<pipeFrame, embedVars, backend_calls, qpc, q_results, q_chunks, q_result,
                   q_error, q_service, q_text, spc, s_results, s_chunks, s_error,
                   s_service, llm_calls>>

\* Mutant: the `done` event is yielded inside the loop over the lines, which
\* goes on reading.
StreamEndKeepsReading ==
    /\ spc = "reading"
    /\ Len(events) < MaxFragments + 3
    /\ events' = Append(events, Event("done", <<>>))
    /\ spc' = "reading"
    /\ UNCHANGED <<pipeFrame, embedVars, backend_calls, qpc, q_results, q_chunks, q_result,
                   q_error, q_service, q_text,
                   s_results, s_chunks, s_error, s_service,
                   s_fragments, llm_calls>>

\* generate_response_stream, lines 172-178, and query_stream, line 182: the
\* loop over the lines ends, by a line with done = true or by the end of the
\* body, and the `done` event follows.  The body of a response with an error
\* status is one JSON line without a `response` key: it is skipped.
StreamEnd ==
    /\ spc = "reading"
    /\ events' = Append(events, Event("done", <<>>))
    /\ spc' = "done_yielded"
    /\ UNCHANGED <<pipeFrame, embedVars, backend_calls, qpc, q_results, q_chunks, q_result,
                   q_error, q_service, q_text,
                   s_results, s_chunks, s_error, s_service,
                   s_fragments, llm_calls>>

\* generate_response_stream, lines 172-181: reading a line times out, or a
\* line is not JSON; the exception passes through query_stream.
StreamReadFails ==
    /\ spc = "reading"
    /\ spc' = "raised"
    /\ s_error' = "completion_service"
    /\ s_service' = IF s_service = "ok" THEN "timeout" ELSE s_service
    /\ UNCHANGED <<pipeFrame, embedVars, backend_calls, qpc, q_results, q_chunks, q_result,
                   q_error, q_service, q_text,
                   s_results, s_chunks, s_fragments, events,
                   llm_calls>>

\* query_stream, line 182: the pull after the `done` event ends the generator.
StreamFinish ==
    /\ spc = "done_yielded"
    /\ spc' = "finished"
    /\ UNCHANGED <<pipeFrame, embedVars, backend_calls, qpc, q_results, q_chunks, q_result,
                   q_error, q_service, q_text,
                   s_results, s_chunks, s_error, s_service,
                   s_fragments, events, llm_calls>>

Next ==
    \/ QueryRetrieve
    \/ QueryRespond
    \/ StreamRetrieve
    \/ StreamReturnAfterError
    \/ StreamPost
    \/ StreamFragment
    \/ StreamEnd
    \/ StreamReadFails
    \/ StreamFinish

Spec == Init /\ [][Next]_vars

(***************************************************************************)
(* get_embedding_model (src/embedding/embed_model.py lines 43-78) called   *)
(* by several request threads.  Nothing in the function holds a lock, so   *)
(* the threads interleave between the test of _model, the constructor, the *)
(* assignment and the return.                                              *)
(***************************************************************************)
InitEmbed ==
    /\ ChunkIdle /\ IndexIdle /\ EmbedIdle /\ PipeIdle /\ ThreadIdle
    /\ IngestIdle /\ AssembleIdle /\ GenIdle /\ ConnIdle

embedFrame == <<chunkVars, indexVars, pipeVars, ingestVars, assembleVars,
                genVars, connVars>>

\* line 45: if _model is None
EmbedTest(t) ==
    /\ tpc[t] = "idle"
    /\ tpc' = [tpc EXCEPT ![t] = IF model = 0 THEN "loading" ELSE "return"]
    /\ UNCHANGED <<embedFrame, embedVars, t_new, t_ret>>

\* lines 58-62: SentenceTransformer(...) returns an instance.
EmbedConstruct(t) ==
    /\ tpc[t] = "loading"
    /\ loads' = loads + 1
    /\ t_new' = [t_new EXCEPT ![t] = loads + 1]
    /\ tpc' = [tpc EXCEPT ![t] = "constructed"]
    /\ UNCHANGED <<embedFrame, model, t_ret>>

\* lines 74-76: the import or the constructor raises; the exception is raised again.
EmbedConstructFails(t) ==
    /\ tpc[t] = "loading"
    /\ tpc' = [tpc EXCEPT ![t] = "raised"]
    /\ UNCHANGED <<embedFrame, embedVars, t_new, t_ret>>

\* line 58: _model = <the instance>
EmbedAssign(t) ==
    /\ tpc[t] = "constructed"
    /\ model' = t_new[t]
    /\ tpc' = [tpc EXCEPT ![t] = "return"]
    /\ UNCHANGED <<embedFrame, loads, t_new, t_ret>>

\* line 78: return _model
EmbedReturn(t) ==
    /\ tpc[t] = "return"
    /\ t_ret' = [t_ret EXCEPT ![t] = model]
    /\ tpc' = [tpc EXCEPT ![t] = "returned"]
    /\ UNCHANGED <<embedFrame, embedVars, t_new>>

\* The thread serves its next request.
EmbedNextRequest(t) ==
    /\ tpc[t] \in {"returned", "raised"}
    /\ tpc' = [tpc EXCEPT ![t] = "idle"]
    /\ t_new' = [t_new EXCEPT ![t] = 0]
    /\ t_ret' = [t_ret EXCEPT ![t] = 0]
    /\ UNCHANGED <<embedFrame, embedVars>>

NextEmbed ==
    \/ \E t \in Threads : EmbedTest(t)
    \/ \E t \in Threads : EmbedConstruct(t)
    \/ \E t \in Threads : EmbedConstructFails(t)
    \/ \E t \in Threads : EmbedAssign(t)
    \/ \E t \in Threads : EmbedReturn(t)
    \/ \E t \in Threads : EmbedNextRequest(t)

SpecEmbed == InitEmbed /\ [][NextEmbed]_vars

(***************************************************************************)
(* ingest_pdf (scripts/ingest_documents.py lines 48-84), one call at a     *)
(* time.  Every database function runs in a transaction of get_db_cursor   *)
(* (src/database/db_connection.py lines 100-112): committed when its block *)
(* ends, rolled back when it raises.                                       *)
(***************************************************************************)
InitIngest ==
    /\ ChunkIdle /\ IndexIdle /\ EmbedIdle /\ PipeIdle /\ ThreadIdle
    /\ IngestIdle /\ AssembleIdle /\ GenIdle /\ ConnIdle

ingestFrame == <<chunkVars, pipeVars, threadVars, assembleVars, genVars,
                 connVars>>

\* get_unique_sources, lines 182-184.
GetUniqueSources(docs) == {docs[i].source_file : i \in 1..Len(docs)}

\* delete_by_source, lines 198-205: the table after the DELETE.
DeleteBySource(docs, f) == SelectSeq(docs, LAMBDA d : d.source_file # f)

\* embed_document_chunks (src/embedding/generate_embeddings.py lines 53-63):
\* chunk i of the list gets chunk_index i, counted from 0.
EmbedDocumentChunks(f, embeddings) ==
    [i \in 1..Len(embeddings) |->
        [content |-> ChunkContent(f, i - 1), source_file |-> f,
         chunk_index |-> i - 1, embedding |-> embeddings[i]]]

\* insert_documents_batch, lines 84-108: the table after the INSERT.
InsertDocumentsBatch(docs, batch) == docs \o batch

Raise ==
    /\ ipc' = "idle"
    /\ i_outcome' = "raised"

\* Mutant: a stored file is processed again without reingest.
IngestCheckNeverSkips ==
    /\ ipc = "idle"
    /\ \E f \in Sources, r \in BOOLEAN :
          /\ i_file' = f
          /\ i_reingest' = r
          /\ i_n' = 0 /\ i_deleted' = 0 /\ i_ret' = 0
          /\ \/ Raise
             \/ /\ i_outcome' = "none"
                /\ ipc' = IF f \in GetUniqueSources(documents) /\ r
                          THEN "delete"
                          ELSE "extract"
    /\ UNCHANGED <<ingestFrame, indexVars, embedVars>>

\* ingest_pdf, lines 48-58: the test for an earlier ingestion of the file.
IngestCheck ==
    /\ ipc = "idle"
    /\ \E f \in Sources, r \in BOOLEAN :
          /\ i_file' = f
          /\ i_reingest' = r
          /\ i_n' = 0 /\ i_deleted' = 0 /\ i_ret' = 0
          /\ \/ Raise                                  \* the database fails
             \/ /\ i_outcome' = "none"
                /\ ipc' = IF f \in GetUniqueSources(documents)
                          THEN IF r THEN "delete" ELSE "skip"
                          ELSE "extract"
    /\ UNCHANGED <<ingestFrame, indexVars, embedVars>>

\* ingest_pdf, lines 56-58: already ingested and no reingest, return 0.
IngestSkip ==
    /\ ipc = "skip"
    /\ ipc' = "idle"
    /\ i_ret' = 0
    /\ i_outcome' = "skipped"
    /\ UNCHANGED <<ingestFrame, indexVars, embedVars, i_file, i_reingest, i_n,
                   i_deleted>>

\* Mutant: re-ingestion inserts without deleting the rows of the source.
IngestDeleteNothing ==
    /\ ipc = "delete"
    /\ ipc' = "extract"
    /\ UNCHANGED <<ingestFrame, indexVars, embedVars, i_file, i_reingest, i_n,
                   i_deleted, i_ret, i_outcome>>

\* ingest_pdf, lines 53-55: delete_by_source(filename).
IngestDelete ==
    /\ ipc = "delete"
    /\ \/ /\ documents' = DeleteBySource(documents, i_file)
          /\ i_deleted' = Len(documents) - Len(documents')
          /\ ipc' = "extract"
          /\ UNCHANGED i_outcome
       \/ Raise /\ UNCHANGED <<documents, i_deleted>>  \* rolled back
    /\ UNCHANGED <<ingestFrame, embedVars, i_file, i_reingest, i_n, i_ret>>

\* ingest_pdf, lines 64-77: extract_text_from_pdf, clean_text and
\* chunk_text(cleaned_text); the file decides how many chunks there are.
IngestChunk ==
    /\ ipc = "extract"
    /\ \/ /\ \E n \in 0..MaxChunks : i_n' = n
          /\ ipc' = "store"
          /\ UNCHANGED i_outcome
       \/ Raise /\ UNCHANGED i_n                       \* the PDF cannot be read
    /\ UNCHANGED <<ingestFrame, indexVars, embedVars, i_file, i_reingest,
                   i_deleted, i_ret>>

\* ingest_pdf, lines 79-84: embed_and_store
\* (src/embedding/generate_embeddings.py lines 86-98).
IngestStore ==
    /\ ipc = "store"
    /\ IF i_n = 0
       THEN /\ ipc' = "idle" /\ i_ret' = 0 /\ i_outcome' = "ingested"
            /\ UNCHANGED <<indexVars, embedVars>>
       ELSE \E m \in GetEmbeddingModel :
               /\ model' = m.model /\ loads' = m.loads
               /\ IF ~m.ok
                  THEN Raise /\ UNCHANGED <<documents, i_ret>>
                  ELSE \/ \E e \in [1..i_n -> Embeddings] :
                             /\ documents' = InsertDocumentsBatch(documents,
                                                 EmbedDocumentChunks(i_file, e))
                             /\ i_ret' = i_n
                             /\ ipc' = "idle"
                             /\ i_outcome' = "ingested"
                       \/ Raise /\ UNCHANGED <<documents, i_ret>>  \* rolled back
    /\ UNCHANGED <<ingestFrame, i_file, i_reingest, i_n, i_deleted>>

NextIngest ==
    \/ IngestCheck
    \/ IngestSkip
    \/ IngestDelete
    \/ IngestChunk
    \/ IngestStore

SpecIngest == InitIngest /\ [][NextIngest]_vars

(***************************************************************************)
(* format_context, get_sources (src/rag/retrieval.py), generate_answer and *)
(* generate_answer_stream (src/rag/generation.py) called one after the     *)
(* other by a caller with a list of chunks of its own: any rows, in any    *)
(* order, the empty list included.                                         *)
(***************************************************************************)
ContentLengths == {PREVIEW_LENGTH - 1, PREVIEW_LENGTH, PREVIEW_LENGTH + 1}

ChunkRows ==
    {[id |-> 1, content |-> [text |-> <<f, k>>, len |-> l], source_file |-> f,
      chunk_index |-> k, similarity |-> Similarity(1, e)] :
        f \in Sources, k \in 0..1, l \in ContentLengths, e \in Embeddings}

ChunkLists == UNION {[1..n -> ChunkRows] : n \in 0..MaxDocs}

InitAssemble ==
    /\ ChunkIdle /\ IndexIdle /\ EmbedIdle /\ PipeIdle /\ ThreadIdle
    /\ IngestIdle /\ GenIdle /\ ConnIdle
    /\ a_pc = "start"
    /\ a_chunks \in ChunkLists
    /\ a_query \in Questions
    /\ a_context = <<>> /\ a_sources = <<>> /\ a_calls = <<>>
    /\ a_answer = "none" /\ a_stream = "none"

assembleFrame == <<chunkVars, indexVars, embedVars, pipeVars, threadVars,
                   ingestVars, genVars, connVars, a_chunks, a_query>>

\* context = format_context(chunks)
CallFormatContext ==
    /\ a_pc = "start"
    /\ a_context' = FormatContext(a_chunks)
    /\ a_pc' = "formatted"
    /\ UNCHANGED <<assembleFrame, a_sources, a_calls, a_answer, a_stream>>

\* sources = get_sources(chunks)
CallGetSources ==
    /\ a_pc = "formatted"
    /\ a_sources' = GetSources(a_chunks)
    /\ a_pc' = "cited"
    /\ UNCHANGED <<assembleFrame, a_context, a_calls, a_answer, a_stream>>

\* generate_answer(query, context), src/rag/generation.py lines 44-58: the
\* prompt of build_rag_prompt is posted; the text of the service is returned
\* or its failure raised.
CallGenerateAnswer ==
    /\ a_pc = "cited"
    /\ a_calls' = Append(a_calls,
           [stream |-> FALSE, temperature |-> GENERATE_TEMPERATURE,
            prompt |-> BuildRagPrompt(a_query, a_context)])
    /\ \E a \in ServiceAnswers : a_answer' = a
    /\ a_pc' = "generated"
    /\ UNCHANGED <<assembleFrame, a_context, a_sources, a_stream>>

\* Mutant: generate_answer_stream fills the grounding template itself.
CallGenerateAnswerStreamOwnPrompt ==
    /\ a_pc = "generated"
    /\ a_calls' = Append(a_calls,
           [stream |-> TRUE, temperature |-> GENERATE_TEMPERATURE,
            prompt |-> [template |-> "RAG_PROMPT_TEMPLATE",
                        context |-> a_context, query |-> a_query]])
    /\ \E a \in {"ok", "error_status", "timeout"} : a_stream' = a
    /\ a_pc' = "streamed"
    /\ UNCHANGED <<assembleFrame, a_context, a_sources, a_answer>>

\* generate_answer_stream(query, context), src/rag/generation.py lines 75-83,
\* up to the post of generate_response_stream: the prompt of build_rag_prompt
\* is posted.
CallGenerateAnswerStream ==
    /\ a_pc = "generated"
    /\ a_calls' = Append(a_calls,
           [stream |-> TRUE, temperature |-> GENERATE_TEMPERATURE,
            prompt |-> BuildRagPrompt(a_query, a_context)])
    /\ \E a \in {"ok", "error_status", "timeout"} : a_stream' = a
    /\ a_pc' = "streamed"
    /\ UNCHANGED <<assembleFrame, a_context, a_sources, a_answer>>

NextAssemble ==
    \/ CallFormatContext
    \/ CallGetSources
    \/ CallGenerateAnswer
    \/ CallGenerateAnswerStream

SpecAssemble == InitAssemble /\ [][NextAssemble]_vars

(***************************************************************************)
(* generate_response_stream (src/api/ollama_client.py lines 166-181) after *)
(* its post, pulled by a consumer through generate_answer_stream           *)
(* (src/rag/generation.py lines 77-83), which hands every fragment on.     *)
(* A line of the body is known by what the loop reads of it:               *)
(*   "blank"    an empty line, skipped by `if line`                        *)
(*   "fragment" JSON with a `response` and without done                    *)
(*   "last"     JSON with a `response` and done = true                     *)
(*   "done"     JSON with done = true and no `response`                    *)
(*   "error"    JSON with neither (the body of an error status)            *)
(*   "garbage"  not JSON: json.loads raises                                *)
(***************************************************************************)
LineKinds == {"blank", "fragment", "last", "done", "error", "garbage"}
HasResponse(k) == k \in {"fragment", "last"}
IsDone(k) == k \in {"last", "done"}

Bodies == UNION {[1..n -> LineKinds] : n \in 0..MaxLines}

InitStream ==
    /\ ChunkIdle /\ IndexIdle /\ EmbedIdle /\ PipeIdle /\ ThreadIdle
    /\ IngestIdle /\ AssembleIdle /\ ConnIdle
    /\ g_pc = "open"
    /\ g_body \in Bodies
    /\ g_pos = 0
    /\ g_delivered = <<>>

streamFrame == <<chunkVars, indexVars, embedVars, pipeVars, threadVars,
                 ingestVars, assembleVars, connVars, g_body>>

\* The loop over iter_lines() from line j on, up to its next yield, its
\* break, the end of the body or the exception of json.loads.
RECURSIVE Scan(_, _)
Scan(body, j) ==
    IF j > Len(body) THEN [outcome |-> "finished", at |-> Len(body)]
    ELSE IF body[j] = "garbage" THEN [outcome |-> "raised", at |-> j]
    ELSE IF HasResponse(body[j]) THEN [outcome |-> "yield", at |-> j]
    ELSE IF IsDone(body[j]) THEN [outcome |-> "finished", at |-> j]
    ELSE Scan(body, j + 1)

\* A pull of the consumer resumes after the yield of line g_pos: line 178
\* tests done of that line, then the loop reads on.
Resume ==
    IF g_pos > 0 /\ IsDone(g_body[g_pos])
    THEN [outcome |-> "finished", at |-> g_pos]
    ELSE Scan(g_body, g_pos + 1)

\* Mutant: the loop does not test done (line 177-178 left out).
GenYieldIgnoresDone ==
    /\ g_pc = "open"
    /\ \E j \in (g_pos + 1)..Len(g_body) :
          /\ HasResponse(g_body[j])
          /\ \A i \in (g_pos + 1)..(j - 1) :
                 ~HasResponse(g_body[i]) /\ g_body[i] # "garbage"
          /\ g_pos' = j
          /\ g_delivered' = Append(g_delivered, j)
    /\ UNCHANGED <<streamFrame, g_pc>>

\* A pull that ends at the yield of line 176: the consumer gets the fragment.
GenYield ==
    /\ g_pc = "open"
    /\ Resume.outcome = "yield"
    /\ g_pos' = Resume.at
    /\ g_delivered' = Append(g_delivered, Resume.at)
    /\ UNCHANGED <<streamFrame, g_pc>>

\* A pull that ends at the break of line 178 or at the end of the body: the
\* generator is exhausted.
GenFinish ==
    /\ g_pc = "open"
    /\ Resume.outcome = "finished"
    /\ g_pos' = Resume.at
    /\ g_pc' = "finished"
    /\ UNCHANGED <<streamFrame, g_delivered>>

\* A pull in which json.loads raises, or the read of the next line times
\* out: lines 179-181 log and raise again.
GenRaise ==
    /\ g_pc = "open"
    /\ \/ Resume.outcome = "raised" /\ g_pos' = Resume.at
       \/ Resume.outcome # "raised" /\ UNCHANGED g_pos
    /\ g_pc' = "raised"
    /\ UNCHANGED <<streamFrame, g_delivered>>

\* The consumer stops pulling and drops the generator: the `with` block of
\* line 166 closes the response.
GenClose ==
    /\ g_pc = "open"
    /\ g_pc' = "closed"
    /\ UNCHANGED <<streamFrame, g_pos, g_delivered>>

NextStream ==
    \/ GenYield
    \/ GenFinish
    \/ GenRaise
    \/ GenClose

SpecStream == InitStream /\ [][NextStream]_vars

(***************************************************************************)
(* Two ingest_pdf calls of one process, on different files.  Both work on  *)
(* the connection get_connection returns, the one global _connection       *)
(* (src/database/db_connection.py lines 33, 46-63), so the statements of   *)
(* both run in that connection's one open transaction: c_work is the table *)
(* as that transaction sees it, documents the committed table.  A block    *)
(* that fails here raises on the client side (a row that cannot be built   *)
(* or adapted), which leaves the transaction usable by the other call.     *)
(***************************************************************************)
File(t) == IF t = 1 THEN "a.pdf" ELSE "b.pdf"

\* What an earlier run left in the table: one chunk per stored source.
StoredTables ==
    {<<>>,
     EmbedDocumentChunks("a.pdf", <<1>>),
     EmbedDocumentChunks("b.pdf", <<1>>),
     EmbedDocumentChunks("a.pdf", <<1>>) \o EmbedDocumentChunks("b.pdf", <<1>>)}

InitConn ==
    /\ ChunkIdle /\ EmbedIdle /\ PipeIdle /\ ThreadIdle
    /\ IngestIdle /\ AssembleIdle /\ GenIdle
    /\ documents \in StoredTables
    /\ c_work = documents
    /\ c_pc = [t \in Ingestors |-> "idle"]
    /\ c_reingest \in [Ingestors -> BOOLEAN]
    /\ c_n = [t \in Ingestors |-> 0]
    /\ c_ret = [t \in Ingestors |-> 0]
    /\ c_outcome = [t \in Ingestors |-> "none"]
    /\ c_exists = [t \in Ingestors |-> FALSE]
    /\ c_cursor = [t \in Ingestors |-> FALSE]
    /\ c_block = [t \in Ingestors |-> "none"]

connFrame == <<chunkVars, pipeVars, threadVars, ingestVars, assembleVars,
               genVars, c_reingest>>

\* get_db_cursor, lines 100-105: the cursor is opened and the block runs up
\* to its last statement, or raises before it.
EnterBlock(t, ok) ==
    /\ c_cursor' = [c_cursor EXCEPT ![t] = TRUE]
    /\ c_block' = [c_block EXCEPT ![t] = IF ok THEN "open" ELSE "failed"]

\* The exception leaves ingest_pdf.
ConnRaise(t) ==
    /\ c_pc' = [c_pc EXCEPT ![t] = "idle"]
    /\ c_outcome' = [c_outcome EXCEPT ![t] = "raised"]

\* ingest_pdf, line 51: get_unique_sources (lines 182-184) runs its SELECT.
ConnSelect(t) ==
    /\ c_pc[t] = "idle" /\ c_outcome[t] = "none"
    /\ c_pc' = [c_pc EXCEPT ![t] = "selected"]
    /\ \/ /\ EnterBlock(t, TRUE)
          /\ c_exists' = [c_exists EXCEPT
                             ![t] = File(t) \in GetUniqueSources(c_work)]
       \/ EnterBlock(t, FALSE) /\ UNCHANGED c_exists
    /\ UNCHANGED <<connFrame, indexVars, embedVars, c_work, c_n, c_ret,
                   c_outcome>>

\* Mutant: the exit of a failed block commits instead of rolling back.
ExitBlockAlwaysCommits(t) ==
    /\ c_cursor[t]
    /\ c_cursor' = [c_cursor EXCEPT ![t] = FALSE]
    /\ c_block' = [c_block EXCEPT ![t] = "none"]
    /\ documents' = c_work
    /\ UNCHANGED c_work
    /\ IF c_block[t] = "failed"
       THEN ConnRaise(t) /\ UNCHANGED c_ret
       ELSE IF c_pc[t] = "inserted"
       THEN /\ c_pc' = [c_pc EXCEPT ![t] = "idle"]
            /\ c_ret' = [c_ret EXCEPT ![t] = c_n[t]]
            /\ c_outcome' = [c_outcome EXCEPT ![t] = "ingested"]
       ELSE /\ c_pc' = [c_pc EXCEPT ![t] =
                          IF c_pc[t] = "deleted" THEN "extract"
                          ELSE IF ~c_exists[t] THEN "extract"
                          ELSE IF c_reingest[t] THEN "delete" ELSE "skip"]
            /\ UNCHANGED <<c_ret, c_outcome>>
    /\ UNCHANGED <<connFrame, embedVars, c_n, c_exists>>

\* get_db_cursor, lines 106-112: conn.commit() after the block, or
\* conn.rollback() and the exception again; cursor.close() either way.  Both
\* act on the whole transaction of the connection.  After the block of
\* get_unique_sources ingest_pdf goes on at lines 52-58, after that of
\* delete_by_source at line 60, after that of insert_documents_batch it
\* returns the count (lines 81-84).
ExitBlock(t) ==
    /\ c_cursor[t]
    /\ c_cursor' = [c_cursor EXCEPT ![t] = FALSE]
    /\ c_block' = [c_block EXCEPT ![t] = "none"]
    /\ IF c_block[t] = "failed"
       THEN /\ c_work' = documents
            /\ UNCHANGED <<documents, c_ret>>
            /\ ConnRaise(t)
       ELSE /\ documents' = c_work
            /\ UNCHANGED c_work
            /\ IF c_pc[t] = "inserted"
               THEN /\ c_pc' = [c_pc EXCEPT ![t] = "idle"]
                    /\ c_ret' = [c_ret EXCEPT ![t] = c_n[t]]
                    /\ c_outcome' = [c_outcome EXCEPT ![t] = "ingested"]
               ELSE /\ c_pc' = [c_pc EXCEPT ![t] =
                                  IF c_pc[t] = "deleted" THEN "extract"
                                  ELSE IF ~c_exists[t] THEN "extract"
                                  ELSE IF c_reingest[t] THEN "delete"
                                  ELSE "skip"]
                    /\ UNCHANGED <<c_ret, c_outcome>>
    /\ UNCHANGED <<connFrame, embedVars, c_n, c_exists>>

\* ingest_pdf, lines 56-58.
ConnSkip(t) ==
    /\ c_pc[t] = "skip"
    /\ c_pc' = [c_pc EXCEPT ![t] = "idle"]
    /\ c_ret' = [c_ret EXCEPT ![t] = 0]
    /\ c_outcome' = [c_outcome EXCEPT ![t] = "skipped"]
    /\ UNCHANGED <<connFrame, indexVars, embedVars, c_work, c_n, c_exists,
                   c_cursor, c_block>>

\* ingest_pdf, line 55: delete_by_source (lines 198-201) runs its DELETE.
ConnDelete(t) ==
    /\ c_pc[t] = "delete"
    /\ c_pc' = [c_pc EXCEPT ![t] = "deleted"]
    /\ \/ /\ EnterBlock(t, TRUE)
          /\ c_work' = DeleteBySource(c_work, File(t))
       \/ EnterBlock(t, FALSE) /\ UNCHANGED c_work
    /\ UNCHANGED <<connFrame, indexVars, embedVars, c_n, c_ret, c_outcome,
                   c_exists>>

\* ingest_pdf, lines 64-77: extraction, cleaning and chunking.
ConnChunk(t) ==
    /\ c_pc[t] = "extract"
    /\ \/ /\ \E n \in 0..MaxChunks : c_n' = [c_n EXCEPT ![t] = n]
          /\ c_pc' = [c_pc EXCEPT ![t] = "store"]
          /\ UNCHANGED c_outcome
       \/ ConnRaise(t) /\ UNCHANGED c_n
    /\ UNCHANGED <<connFrame, indexVars, embedVars, c_work, c_ret, c_exists,
                   c_cursor, c_block>>

\* ingest_pdf, line 81: embed_and_store
\* (src/embedding/generate_embeddings.py lines 86-98) embeds the chunks and
\* insert_documents_batch (lines 84-105) runs its INSERT.  execute_values
\* sends the rows page by page, so a block that fails has inserted the rows
\* of the pages before the failing one (a page is one row here).
ConnStore(t) ==
    /\ c_pc[t] = "store"
    /\ IF c_n[t] = 0
       THEN /\ c_pc' = [c_pc EXCEPT ![t] = "idle"]
            /\ c_ret' = [c_ret EXCEPT ![t] = 0]
            /\ c_outcome' = [c_outcome EXCEPT ![t] = "ingested"]
            /\ UNCHANGED <<embedVars, c_work, c_cursor, c_block>>
       ELSE \E m \in GetEmbeddingModel :
               /\ model' = m.model /\ loads' = m.loads
               /\ UNCHANGED c_ret
               /\ IF ~m.ok
                  THEN ConnRaise(t) /\ UNCHANGED <<c_work, c_cursor, c_block>>
                  ELSE /\ c_pc' = [c_pc EXCEPT ![t] = "inserted"]
                       /\ UNCHANGED c_outcome
                       /\ \/ /\ EnterBlock(t, TRUE)
                             /\ c_work' = InsertDocumentsBatch(c_work,
                                     EmbedDocumentChunks(File(t),
                                         [i \in 1..c_n[t] |-> 1]))
                          \/ /\ EnterBlock(t, FALSE)
                             /\ \E k \in 0..(c_n[t] - 1) :
                                   c_work' = InsertDocumentsBatch(c_work,
                                       SubSeq(EmbedDocumentChunks(File(t),
                                           [i \in 1..c_n[t] |-> 1]), 1, k))
    /\ UNCHANGED <<connFrame, indexVars, c_n, c_exists>>

NextConn ==
    \E t \in Ingestors :
        \/ ConnSelect(t)
        \/ ExitBlock(t)
        \/ ConnSkip(t)
        \/ ConnDelete(t)
        \/ ConnChunk(t)
        \/ ConnStore(t)

SpecConn == InitConn /\ [][NextConn]_vars

(***************************************************************************)
(* Chunker claims (checked under SpecChunk).                               *)
(***************************************************************************)
SentenceMode ==
    \/ entry = "chunk_by_sentences"
    \/ entry = "chunk_text" /\ respect_sentences
WordMode ==
    \/ entry = "chunk_by_words"
    \/ entry = "chunk_text" /\ ~respect_sentences

Last(s) == s[Len(s)]
RangeOf(s) == {s[i] : i \in 1..Len(s)}

\* C3: chunking terminates for every non-empty text and all positive
\* target_size and overlap, overlap >= target_size included: an iteration of
\* the word-count loop that appends a chunk either moves the window forward
\* or is the last one (the window that does not advance is abandoned).
C3_NonAdvancingWindowAbandoned ==
    [][(/\ cpc = "words" /\ text # <<>> /\ chunk_size > 0 /\ overlap > 0
        /\ chunks' # chunks)
       => (start' > start \/ cpc' = "done")]_vars

\* C6: with overlap = 0 passed to chunk_text in sentence-aware mode, every
\* sentence of the text appears in exactly one chunk of the result.
C6_NoSharedSentences ==
    (/\ cpc = "done" /\ entry = "chunk_text" /\ respect_sentences
     /\ arg_overlap = 0)
    => \A s \in 1..Len(Sentences(text)) :
           Cardinality({k \in 1..Len(chunks) : s \in RangeOf(chunks[k])}) = 1

\* The prefix of chunk c that repeats a suffix of the previous chunk, dropped:
\* what is left of c after its longest prefix that is a suffix of prev.
RepeatLen(prev, c) ==
    LET fits == {m \in 0..Min(Len(prev), Len(c)) :
                    SubSeq(c, 1, m) = SubSeq(prev, Len(prev) - m + 1, Len(prev))}
    IN  CHOOSE m \in fits : \A x \in fits : x <= m
DropRepeat(prev, c) == SubSeq(c, RepeatLen(prev, c) + 1, Len(c))

RECURSIVE Reconstruct(_, _)
Reconstruct(cs, k) ==
    IF k = 0 THEN <<>>
    ELSE IF k = 1 THEN cs[1]
    ELSE Reconstruct(cs, k - 1) \o DropRepeat(cs[k - 1], cs[k])

\* C7: sentence-aware chunking is lossless: for a non-empty text every chunk
\* is a contiguous run of the text's sentences in source order, a chunk starts
\* no later than one sentence after the end of the chunk before it, and the
\* chunks concatenated, each without the prefix that repeats the suffix of the
\* chunk before it, are the sentences 1..n of the text, each once, in order.
\* (Sentences are told apart by their place in the text.)
C7_SentenceChunkingLossless ==
    (cpc = "done" /\ SentenceMode /\ text # <<>>)
    => /\ \A k \in 1..Len(chunks) :
              /\ chunks[k] # <<>>
              /\ \A j \in 1..(Len(chunks[k]) - 1) :
                     chunks[k][j + 1] = chunks[k][j] + 1
       /\ \A k \in 1..(Len(chunks) - 1) :
              chunks[k + 1][1] <= Last(chunks[k]) + 1
       /\ Reconstruct(chunks, Len(chunks)) =
              [s \in 1..Len(Sentences(text)) |-> s]

\* C7 witness: a finished sentence-aware run of three chunks, one of which
\* repeats a sentence of the chunk before it and one of which does not.
C7_Witness ==
    /\ cpc = "done" /\ SentenceMode /\ Len(chunks) = 3
    /\ chunks[2][1] = Last(chunks[1])
    /\ chunks[3][1] = Last(chunks[2]) + 1

\* C8: word-count mode with overlap < target_size: chunk k (from 0) is
\* words[k*step : k*step + target_size] with step = target_size - overlap,
\* cut at the end of the text; the window that reaches the end of the text is
\* the last chunk, partial or not, so every word is in some chunk and nothing
\* is emitted after it.
C8_WordWindows ==
    (cpc = "done" /\ WordMode /\ text # <<>> /\ overlap < chunk_size)
    => LET step == chunk_size - overlap
           n    == Len(text)
       IN  /\ chunks # <<>>
           /\ \A k \in 1..Len(chunks) :
                  chunks[k] = PySlice(n, (k - 1) * step,
                                      (k - 1) * step + chunk_size)
           /\ \A k \in 1..Len(chunks) :
                  ((k - 1) * step + chunk_size >= n) <=> (k = Len(chunks))
           /\ \A w \in 1..n : \E k \in 1..Len(chunks) : w \in RangeOf(chunks[k])

\* C8 witness: a finished word-count run with 0 < overlap < target_size whose
\* last window is a partial one.
C8_Witness ==
    /\ cpc = "done" /\ WordMode /\ 0 < overlap /\ overlap < chunk_size
    /\ Len(chunks) >= 2
    /\ Len(Last(chunks)) < chunk_size
    /\ Len(chunks[1]) = chunk_size

\* C21: the chunker never returns an empty chunk: for every text and all
\* sizes, in both modes and through each of the three functions, every chunk
\* of the list returned has at least one word, and a text without words
\* (empty or blank) returns the empty list.
C21_NoEmptyChunk ==
    cpc = "done"
    => /\ \A k \in 1..Len(chunks) : chunks[k] # <<>>
       /\ text = <<>> => chunks = <<>>
       /\ text # <<>> => chunks # <<>>

\* C21 witness: chunk_by_sentences, called directly, has returned for a text
\* without words.
C21_Witness ==
    /\ cpc = "done" /\ entry = "chunk_by_sentences" /\ text = <<>>
    /\ arg_size > 0 /\ arg_overlap > 0 /\ chunks = <<>>

\* The longest suffix of the sentences cur whose words number at most ov.
LongestSuffix(t, cur, ov) ==
    LET n    == Len(cur)
        fits == {k \in 0..n : WordCount(t, SubSeq(cur, n - k + 1, n)) <= ov}
        k    == CHOOSE a \in fits : \A b \in fits : b <= a
    IN  SubSeq(cur, n - k + 1, n)

AllSentencesFit ==
    \A s \in 1..Len(Sentences(text)) : SentenceWords(text, s) <= chunk_size

\* C25: sentence-aware overlap.  When a chunk is closed, the next chunk begins
\* with the longest suffix of the closed chunk's sentences whose words number
\* at most overlap (possibly none), followed by the sentence that triggered
\* the close; it is made of whole sentences of the text.
C25_OverlapIsLongestSuffix ==
    [][(/\ cpc = "sentences" /\ cpc' = "sentences"
        /\ Len(chunks') = Len(chunks) + 1)
          => /\ Last(chunks') = current_chunk
             /\ current_chunk' =
                    LongestSuffix(text, current_chunk, overlap) \o <<si>>
             /\ \A j \in 1..Len(current_chunk') :
                    current_chunk'[j] \in 1..Len(Sentences(text))]_vars

\* C25 witness: a chunk was closed and two of its sentences were carried over.
C25_Witness ==
    /\ cpc = "sentences"
    /\ chunks # <<>>
    /\ Len(current_chunk) >= 3
    /\ current_chunk[2] = Last(Last(chunks))

\* C26: a chunk is closed exactly when the running chunk is non-empty and its
\* word count plus the next sentence's exceeds target_size; a sentence
\* arriving at an empty running chunk is accepted whatever its length; the
\* last running chunk is always emitted; so there are never more chunks than
\* sentences.
C26_CloseCondition ==
    [][/\ (cpc = "sentences" /\ cpc' = "sentences")
           => /\ IF /\ current_chunk # <<>>
                    /\ WordCount(text, current_chunk)
                           + SentenceWords(text, si) > chunk_size
                 THEN chunks' = Append(chunks, current_chunk)
                 ELSE /\ chunks' = chunks
                      /\ current_chunk' = Append(current_chunk, si)
              /\ Last(current_chunk') = si
       /\ (cpc = "sentences" /\ cpc' = "done")
           => /\ current_chunk # <<>>
              /\ chunks' = Append(chunks, current_chunk)
              /\ Len(chunks') <= Len(Sentences(text))]_vars

\* C26 witness: a finished run whose first sentence, longer than target_size,
\* is a chunk of its own, with as many chunks as sentences.
C26_Witness ==
    /\ cpc = "done" /\ SentenceMode
    /\ Len(chunks) >= 2
    /\ Len(chunks) = Len(Sentences(text))
    /\ chunks[1] = <<1>>
    /\ SentenceWords(text, 1) > chunk_size

\* C30: with overlap < target_size and no sentence longer than target_size,
\* every emitted chunk has at most target_size + overlap words, and a chunk
\* that does not begin with sentences carried over from the chunk before it
\* has at most target_size words.
C30_ChunkSizeBound ==
    (/\ SentenceMode /\ cpc \in {"sentences", "done"}
     /\ overlap < chunk_size
     /\ AllSentencesFit)
    => \A k \in 1..Len(chunks) :
          /\ WordCount(text, chunks[k]) <= chunk_size + overlap
          /\ (k = 1 \/ chunks[k][1] > Last(chunks[k - 1]))
                 => WordCount(text, chunks[k]) <= chunk_size

\* C30 witness: a finished run within the precondition with a chunk of
\* exactly target_size + overlap words, and one of target_size words that
\* carries nothing over.
C30_Witness ==
    /\ cpc = "done" /\ SentenceMode
    /\ 0 < overlap /\ overlap < chunk_size
    /\ AllSentencesFit
    /\ Len(chunks) >= 2
    /\ WordCount(text, chunks[1]) = chunk_size
    /\ \E k \in 2..Len(chunks) :
          /\ chunks[k][1] <= Last(chunks[k - 1])
          /\ WordCount(text, chunks[k]) = chunk_size + overlap

(***************************************************************************)
(* Pipeline claims (checked under Spec).                                   *)
(***************************************************************************)
RetrievalErrors == {"embedding_model", "database"}
QueryRetrieved ==
    qpc \in {"retrieved", "returned", "raised"} /\ q_error \notin RetrievalErrors
StreamRetrieved == spc # "idle" /\ s_error \notin RetrievalErrors
HasEvent(type) == \E i \in 1..Len(events) : events[i].type = type

\* C1: when retrieval yields no chunks (the index holds none, or min_similarity
\* removed them all) query raises nothing, posts nothing to the completion
\* service and returns the QueryResult with the fixed fallback answer,
\* sources = [], context_used = "" and chunks_retrieved = 0.
C1_NoContextFallback ==
    (QueryRetrieved /\ q_chunks = <<>>)
    => /\ qpc # "raised"
       /\ \A i \in 1..Len(llm_calls) : llm_calls[i].stream
       /\ qpc = "returned" =>
              q_result = [query |-> question, answer |-> FALLBACK_ANSWER,
                          sources |-> <<>>, context_used |-> <<>>,
                          chunks_retrieved |-> 0]

\* C1 witness: query has returned after min_similarity removed every row the
\* index had found.
C1_Witness ==
    qpc = "returned" /\ q_results # <<>> /\ q_chunks = <<>>

\* C2: query_stream retrieves as query does: for the same question,
\* source_filter, index and pipeline, and the same answer of the index, the
\* chunks behind the `sources` event are the chunks behind query's sources,
\* and query_stream yields `error` exactly when query has no chunks.
C2_StreamRetrievesAsQuery ==
    (QueryRetrieved /\ StreamRetrieved /\ q_results = s_results)
    => /\ s_chunks = q_chunks
       /\ (events[1].type = "error") <=> (q_chunks = <<>>)

\* C5: a failure of the completion service (an error status, a timeout) never
\* ends as a normal answer: query raises and returns no QueryResult, and
\* query_stream does not yield `done`.
C5_GenerationFailurePropagates ==
    /\ q_service \in {"error_status", "timeout"}
           => (qpc = "raised" /\ q_result = NoResult)
    /\ s_service \in {"error_status", "timeout"}
           => (spc \notin {"done_yielded", "finished"} /\ ~HasEvent("done"))

\* C10: query_stream with chunks retrieved yields `sources` first and once,
\* then `answer_chunk` events only, then `done` once and last; it yields no
\* `error` event, and nothing after `done`.  A generator that has finished
\* has yielded `done`.
C10_StreamEventOrder ==
    (StreamRetrieved /\ s_chunks # <<>>)
    => /\ Len(events) >= 1
       /\ events[1].type = "sources"
       /\ \A i \in 2..Len(events) :
              \/ events[i].type = "answer_chunk"
              \/ events[i].type = "done" /\ i = Len(events)
       /\ (spc \in {"done_yielded", "finished"})
              <=> (Len(events) >= 2 /\ events[Len(events)].type = "done")

\* C10 witness: a finished stream of sources, two fragments and done.
C10_Witness ==
    /\ spc = "finished" /\ s_chunks # <<>>
    /\ Len(events) = 4 /\ events[2].type = "answer_chunk"
    /\ events[3].type = "answer_chunk" /\ events[4].type = "done"

\* C11: query_stream with no chunks retrieved yields exactly one `error`
\* event and then stops: no `sources`, `answer_chunk` or `done` event is
\* yielded, the generator raises nothing, and no streaming request is posted
\* to the completion service.
C11_StreamErrorOnEmptyRetrieval ==
    (StreamRetrieved /\ s_chunks = <<>>)
    => /\ Len(events) = 1 /\ events[1].type = "error"
       /\ spc \in {"error_yielded", "finished"}
       /\ s_service = "none"
       /\ \A i \in 1..Len(llm_calls) : ~llm_calls[i].stream

\* C11 witness: the generator has finished after the `error` event, over an
\* index that holds no row of the source asked for but rows of another.
C11_Witness ==
    /\ spc = "finished" /\ s_chunks = <<>> /\ s_error = "none"
    /\ documents # <<>> /\ events = <<Event("error", <<>>)>>

\* The rows of a result at or above a similarity, listed in the order of
\* the result.
RECURSIVE KeptInOrder(_, _, _)
KeptInOrder(res, m, n) ==
    IF n = 0 THEN <<>>
    ELSE IF res[n].similarity >= m
    THEN Append(KeptInOrder(res, m, n - 1), res[n])
    ELSE KeptInOrder(res, m, n - 1)

NonIncreasing(cs) ==
    \A i \in 1..(Len(cs) - 1) : cs[i].similarity >= cs[i + 1].similarity

\* C12: the chunks retrieve returns are non-increasing in similarity; with
\* min_similarity > 0 they are the rows the index search returned without
\* those of similarity < min_similarity, the others in their order, so none
\* of them is below min_similarity.  (query passes the pipeline's
\* min_similarity, query_stream passes none.)
C12_RetrieveOrderedAndFiltered ==
    /\ QueryRetrieved
          => /\ NonIncreasing(q_chunks)
             /\ min_similarity > 0 =>
                    /\ q_chunks = KeptInOrder(q_results, min_similarity,
                                              Len(q_results))
                    /\ \A i \in 1..Len(q_chunks) :
                           q_chunks[i].similarity >= min_similarity
             /\ min_similarity = 0 => q_chunks = q_results
    /\ StreamRetrieved => (NonIncreasing(s_chunks) /\ s_chunks = s_results)

\* C12 witness: query has retrieved with min_similarity > 0; the search
\* returned MaxDocs rows, the filter removed the last and kept the others.
C12_Witness ==
    /\ qpc = "retrieved" /\ min_similarity > 0
    /\ Len(q_results) = MaxDocs /\ Len(q_chunks) = MaxDocs - 1
    /\ q_results[MaxDocs].similarity < min_similarity

\* Rows in similarity-descending order, rows of equal similarity in the
\* order of their insertion (ascending id).
TiesInInsertionOrder(res) ==
    \A i, j \in 1..Len(res) :
        i < j => \/ res[i].similarity > res[j].similarity
                 \/ /\ res[i].similarity = res[j].similarity
                    /\ res[i].id < res[j].id

\* C13: the index search returns its rows by similarity descending with rows
\* of equal similarity in ascending insertion order, so the searches of query
\* and of query_stream, with the same query vector over the same index,
\* return the same sequence.
C13_SearchTiesDeterministic ==
    /\ QueryRetrieved => TiesInInsertionOrder(q_results)
    /\ StreamRetrieved => TiesInInsertionOrder(s_results)
    /\ (QueryRetrieved /\ StreamRetrieved) => q_results = s_results

NothingMatches ==
    \A i \in 1..Len(documents) :
        source_filter # "none" /\ documents[i].source_file # source_filter
AllBelow(res, m) == \A i \in 1..Len(res) : res[i].similarity < m

\* C14: when the index holds no chunk (none at all, or none of the source
\* asked for), and when every row found is below min_similarity, a retrieval
\* that the embedding model and the database served ends without an error
\* and with the empty sequence: query goes on to return, query_stream to
\* yield its event.
C14_EmptyRetrievalIsNoError ==
    /\ (QueryRetrieved /\ (NothingMatches \/ AllBelow(q_results, min_similarity)))
          => (q_chunks = <<>> /\ q_error = "none" /\ qpc # "raised")
    /\ (StreamRetrieved /\ NothingMatches)
          => (s_chunks = <<>> /\ s_error = "none" /\ spc # "raised")

\* C14 witness: query has retrieved nothing for a source that has no rows
\* in an index that holds rows of another source.
C14_Witness ==
    /\ qpc = "retrieved" /\ q_error = "none" /\ q_chunks = <<>>
    /\ documents # <<>> /\ source_filter # "none" /\ NothingMatches

\* C19: every QueryResult query returns has chunks_retrieved = the number of
\* chunks retrieved = len(sources), and context_used = "" exactly when
\* chunks_retrieved = 0; with chunks retrieved the answer is the text of the
\* completion service as it came, asked for once, without streaming, with
\* the prompt for the question and the context returned, at the pipeline's
\* temperature.
C19_QueryResultConsistent ==
    qpc = "returned"
    => /\ q_result.query = question
       /\ q_result.chunks_retrieved = Len(q_chunks)
       /\ Len(q_result.sources) = Len(q_chunks)
       /\ (q_result.context_used = <<>>) <=> (q_result.chunks_retrieved = 0)
       /\ q_chunks # <<>> =>
              /\ q_service = "ok" /\ q_result.answer = q_text
              /\ Cardinality({i \in 1..Len(llm_calls) :
                                  ~llm_calls[i].stream}) = 1
              /\ \A i \in 1..Len(llm_calls) :
                     ~llm_calls[i].stream =>
                         /\ llm_calls[i].temperature = temperature
                         /\ llm_calls[i].prompt.query = question
                         /\ llm_calls[i].prompt.context = q_result.context_used

\* C19 witness: query has returned the service's text for MaxDocs chunks from
\* a pipeline whose temperature is not the default of the generator.
C19_Witness ==
    /\ qpc = "returned" /\ Len(q_chunks) = MaxDocs
    /\ temperature # GENERATE_TEMPERATURE
    /\ q_result.answer = q_text /\ q_text # <<>>
    /\ q_result.chunks_retrieved = MaxDocs

\* C20: when the embedding model cannot be loaded (_model is still None
\* after the call tried to load it) the failure propagates: query raises
\* and returns no QueryResult, query_stream raises and yields no event, not
\* even `error`, and neither goes on to the index or the completion service.
C20_EmbeddingFailurePropagates ==
    /\ (qpc # "idle" /\ model = 0)
          => /\ qpc = "raised" /\ q_result = NoResult
             /\ q_results = <<>> /\ q_chunks = <<>>
    /\ (spc # "idle" /\ model = 0)
          => /\ spc = "raised" /\ events = <<>>
             /\ s_results = <<>> /\ s_chunks = <<>>
    /\ model = 0 => (loads = 0 /\ llm_calls = <<>>)

\* C20 witness: over an index that has rows for the question, query and then
\* query_stream have both raised because the model could not be loaded.
C20_Witness ==
    /\ qpc = "raised" /\ spc = "raised" /\ model = 0
    /\ q_error = "embedding_model" /\ s_error = "embedding_model"
    /\ ~NothingMatches

\* How often a pipeline call has called a collaborator.
BackendCalls(by, to) ==
    Cardinality({i \in 1..Len(backend_calls) :
                    backend_calls[i].by = by /\ backend_calls[i].to = to})
Posts(stream) ==
    Cardinality({i \in 1..Len(llm_calls) : llm_calls[i].stream = stream})

\* C23: no retries: one query call and one query_stream call each embed the
\* question at most once, search the index at most once and post to the
\* completion service at most once, whether the collaborator answers or
\* fails; a call that has raised was at its first attempt.
C23_NoRetries ==
    /\ \A by \in {"query", "query_stream"} :
           /\ BackendCalls(by, "embed_text") <= 1
           /\ BackendCalls(by, "search_similar") <= 1
    /\ Posts(FALSE) <= 1 /\ Posts(TRUE) <= 1
    /\ qpc # "idle" => BackendCalls("query", "embed_text") = 1
    /\ q_error = "database" => BackendCalls("query", "search_similar") = 1
    /\ q_error = "completion_service" => Posts(FALSE) = 1
    /\ s_error = "database" => BackendCalls("query_stream", "search_similar") = 1
    /\ s_error = "completion_service" => Posts(TRUE) = 1

\* C23 witness: query has raised at the completion service and query_stream
\* at the database.
C23_Witness ==
    /\ qpc = "raised" /\ q_error = "completion_service"
    /\ spc = "raised" /\ s_error = "database"
    /\ Len(backend_calls) = 4 /\ Len(llm_calls) = 1

(***************************************************************************)
(* Claims about format_context, get_sources and the generator (checked     *)
(* under SpecAssemble).                                                    *)
(***************************************************************************)
Formatted == a_pc \in {"formatted", "cited", "generated", "streamed"}
Cited == a_pc \in {"cited", "generated", "streamed"}

\* C15: format_context(chunks) is the sentinel string exactly when chunks is
\* empty; otherwise it is one block per chunk in input order, block i (from
\* 1) labelled "Source i" and carrying the source and the content of chunk i,
\* with the separator between neighbouring blocks and nowhere else.
C15_FormatContextBlocks ==
    Formatted
    => /\ (a_context = SENTINEL) <=> (a_chunks = <<>>)
       /\ a_chunks # <<>> =>
              /\ Len(a_context) = 2 * Len(a_chunks) - 1
              /\ \A i \in 1..Len(a_chunks) :
                     /\ a_context[2 * i - 1].part = "block"
                     /\ a_context[2 * i - 1].label = i
                     /\ a_context[2 * i - 1].source = a_chunks[i].source_file
                     /\ a_context[2 * i - 1].content = a_chunks[i].content
              /\ \A i \in 1..(Len(a_chunks) - 1) :
                     a_context[2 * i] = SEPARATOR

\* C15 witness: format_context has returned for MaxDocs chunks whose
\* similarities rise along the list and whose first two sources differ.
C15_Witness ==
    /\ a_pc = "formatted" /\ Len(a_chunks) = MaxDocs
    /\ a_chunks[1].source_file # a_chunks[2].source_file
    /\ a_chunks[1].similarity < a_chunks[2].similarity
    /\ Len(a_context) = 2 * MaxDocs - 1

\* The chunk that format_context labels "Source k": the chunk whose content
\* the block with that label carries.
LabelledChunks(k) ==
    {c \in RangeOf(a_chunks) :
        \E j \in 1..Len(a_context) :
            /\ a_context[j].part = "block" /\ a_context[j].label = k
            /\ a_context[j].content = c.content
            /\ a_context[j].source = c.source_file}

\* C16: get_sources(chunks) returns one citation per chunk in the order of
\* the chunks: citation k (from 1) carries the source and the position of
\* chunk k, which is the chunk format_context labels "Source k".
C16_CitationsMatchLabels ==
    Cited
    => /\ Len(a_sources) = Len(a_chunks)
       /\ \A k \in 1..Len(a_chunks) :
              /\ a_sources[k].source_file = a_chunks[k].source_file
              /\ a_sources[k].chunk_index = a_chunks[k].chunk_index
              /\ a_chunks[k] \in LabelledChunks(k)
              /\ \A c \in LabelledChunks(k) :
                     /\ a_sources[k].source_file = c.source_file
                     /\ a_sources[k].chunk_index = c.chunk_index

\* C16 witness: get_sources has returned for MaxDocs chunks, the first two
\* of different sources and at different positions.
C16_Witness ==
    /\ a_pc = "cited" /\ Len(a_chunks) = MaxDocs /\ Len(a_sources) = MaxDocs
    /\ a_chunks[1].source_file # a_chunks[2].source_file
    /\ a_chunks[1].chunk_index # a_chunks[2].chunk_index

\* C17: the preview of a citation is the first 100 characters of the chunk's
\* content, with the ellipsis appended if and only if the content was
\* truncated, that is, is longer than 100 characters.
C17_PreviewEllipsisIfTruncated ==
    Cited
    => \A k \in 1..Len(a_sources) :
           /\ a_sources[k].preview.of = a_chunks[k].content.text
           /\ a_sources[k].preview.chars =
                  Min(a_chunks[k].content.len, PREVIEW_LENGTH)
           /\ a_sources[k].preview.ellipsis
                  <=> (a_chunks[k].content.len > PREVIEW_LENGTH)

\* C18: generate_answer and generate_answer_stream post the same prompt for
\* the same (query, context), and when the context is the sentinel of
\* format_context the prompt posted is the no-information prompt for the
\* query, never the grounding template with the sentinel filled in.
C18_SentinelNeverGrounded ==
    /\ a_pc = "streamed" =>
           /\ Len(a_calls) = 2
           /\ ~a_calls[1].stream /\ a_calls[2].stream
           /\ a_calls[1].prompt = a_calls[2].prompt
    /\ \A i \in 1..Len(a_calls) :
           /\ a_calls[i].prompt.query = a_query
           /\ a_context = SENTINEL =>
                  a_calls[i].prompt =
                      [template |-> "NO_CONTEXT_PROMPT", query |-> a_query]
           /\ a_context # SENTINEL =>
                  a_calls[i].prompt =
                      [template |-> "RAG_PROMPT_TEMPLATE",
                       context |-> a_context, query |-> a_query]

\* C18 witness: both generators have posted their prompt for the context
\* format_context returns for no chunks.
C18_Witness ==
    /\ a_pc = "streamed" /\ a_chunks = <<>> /\ a_context = SENTINEL
    /\ Len(a_calls) = 2
    /\ a_calls[2].prompt.template = "NO_CONTEXT_PROMPT"

(***************************************************************************)
(* Stream generator claim (checked under SpecStream).                      *)
(***************************************************************************)
\* The first line of the body that carries done = true; one past the body
\* if there is none.
FirstDone ==
    LET dones == {j \in 1..Len(g_body) : IsDone(g_body[j])}
    IN  IF dones = {} THEN Len(g_body) + 1
        ELSE CHOOSE j \in dones : \A i \in dones : j <= i

DeliveredInOrder ==
    /\ \A i \in 1..Len(g_delivered) :
           /\ g_delivered[i] \in 1..Len(g_body)
           /\ HasResponse(g_body[g_delivered[i]])
           /\ g_delivered[i] <= FirstDone
    /\ \A i \in 1..(Len(g_delivered) - 1) :
           g_delivered[i] < g_delivered[i + 1]
    /\ \A j \in 1..Len(g_body) :
           (HasResponse(g_body[j]) /\ j <= g_pos /\ g_pc # "raised")
               => \E i \in 1..Len(g_delivered) : g_delivered[i] = j
    /\ g_pc = "finished" => g_pos = Min(FirstDone, Len(g_body))

\* C22: the stream generator hands the consumer the fragments of the
\* service in the order of their emission, each at most once and none left
\* out, and nothing that comes after the service's first done marker; once
\* it has ended, or the consumer has stopped pulling, nothing more is
\* delivered and nothing delivered is delivered again.
C22_FragmentsInOrderOnce ==
    [][/\ DeliveredInOrder'
       /\ g_pc \in {"finished", "closed", "raised"}
              => (g_delivered' = g_delivered /\ g_pc' = g_pc)
       /\ \E n \in 0..1 :
              /\ Len(g_delivered') = Len(g_delivered) + n
              /\ SubSeq(g_delivered', 1, Len(g_delivered)) = g_delivered]_vars

\* C22 witness: the generator has ended at a line that carries a fragment
\* and the done marker, both fragments before a later line delivered and
\* the fragment after the marker not.
C22_Witness ==
    /\ g_pc = "finished" /\ Len(g_body) = 3
    /\ g_body[1] = "fragment" /\ g_body[2] = "last" /\ g_body[3] = "fragment"
    /\ g_delivered = <<1, 2>>

(***************************************************************************)
(* Embedding model claim (checked under SpecEmbed).                        *)
(***************************************************************************)
\* C4: the embedding model is loaded once process-wide: however the first
\* calls of several requests interleave, the constructor runs once and every
\* caller is handed the same instance.
C4_ModelLoadedOnce ==
    /\ loads <= 1
    /\ \A t, u \in Threads :
           (t_ret[t] # 0 /\ t_ret[u] # 0) => t_ret[t] = t_ret[u]

(***************************************************************************)
(* Ingestion claim (checked under SpecIngest).                             *)
(***************************************************************************)
RowsOf(f) == SelectSeq(documents, LAMBDA d : d.source_file = f)

\* C9: after any sequence of ingest operations run one at a time, the rows
\* stored for a source carry the positions 0..n-1, each once, increasing in
\* the order the chunks were emitted and inserted.
C9_PositionsPerSource ==
    \A f \in Sources :
        \A i \in 1..Len(RowsOf(f)) : RowsOf(f)[i].chunk_index = i - 1

\* C9 witness: a re-ingestion that deleted the rows of a source and stored
\* MaxChunks new ones has ended, with the other source in the index too.
C9_Witness ==
    /\ ipc = "idle" /\ i_outcome = "ingested" /\ i_reingest
    /\ i_deleted > 0 /\ i_ret = MaxChunks
    /\ Len(RowsOf(i_file)) = MaxChunks
    /\ Len(documents) > MaxChunks

\* C27: re-ingestion is all-or-nothing.  When ingest_pdf with reingest on a
\* stored file has ended in an exception, or has found no chunk in the new
\* text, the chunks stored before the call are still in the index.
C27_ReingestAllOrNothing ==
    (/\ ipc = "idle"
     /\ i_reingest
     /\ i_deleted > 0
     /\ \/ i_outcome = "raised"
        \/ i_outcome = "ingested" /\ i_ret = 0)
        => Len(RowsOf(i_file)) = i_deleted

\* C28: ingest_pdf without reingest on a file that is already stored returns
\* 0 and leaves the index as it is: nothing is deleted or inserted and the
\* embedding model is not called; so a second ingestion of a file leaves the
\* index as the first one left it.
C28_SkipLeavesIndex ==
    [][/\ (/\ ipc = "idle"
           /\ ~i_reingest'
           /\ i_file' \in GetUniqueSources(documents)
           /\ i_outcome' # "raised")
              => ipc' = "skip" /\ documents' = documents
       /\ ipc = "skip"
              => /\ ipc' = "idle"
                 /\ i_ret' = 0
                 /\ i_outcome' = "skipped"
                 /\ documents' = documents
                 /\ model' = model /\ loads' = loads]_vars

\* A file ingested with MaxChunks chunks has been ingested again without
\* reingest.
C28_Witness ==
    /\ ipc = "idle"
    /\ i_outcome = "skipped"
    /\ ~i_reingest
    /\ i_ret = 0
    /\ Len(RowsOf(i_file)) = MaxChunks

(***************************************************************************)
(* Claims about ingestions over the shared connection (checked under       *)
(* SpecConn).                                                              *)
(***************************************************************************)
Positions(f) == [i \in 1..Len(RowsOf(f)) |-> RowsOf(f)[i].chunk_index]

\* C24: two ingestions of different sources may interleave their index
\* operations in any way: each one that returns its count n has left its own
\* complete chunk set in the index, at positions 0..n-1, and the other one
\* has neither removed nor rolled back any of it.
C24_ConcurrentIngestionsIndependent ==
    \A t \in Ingestors :
        c_outcome[t] = "ingested" =>
            Positions(File(t)) = [i \in 1..c_ret[t] |-> i - 1]

\* C29: get_db_cursor commits exactly when its block finishes without an
\* exception; when the block raises it rolls back, does not commit and the
\* exception leaves the caller, so the stored records are as they were and
\* nothing of the failed block stays pending.  The cursor is closed on every
\* exit.
C29_CommitOrRollback ==
    [][\A t \in Ingestors :
          /\ (c_block[t] = "failed" /\ c_block'[t] = "none") =>
                 /\ documents' = documents
                 /\ c_work' = documents
                 /\ c_outcome'[t] = "raised"
          /\ (c_block[t] = "open" /\ c_block'[t] = "none") =>
                 /\ documents' = c_work
                 /\ c_outcome'[t] # "raised"
          /\ c_block'[t] = "none" => ~c_cursor'[t]]_vars

\* The model is loaded and an ingestion of MaxChunks chunks has raised, so
\* its block of insert_documents_batch failed and has been left: none of its
\* rows is stored or pending and its cursor is closed.
C29_Witness ==
    \E t \in Ingestors :
        /\ c_outcome[t] = "raised"
        /\ c_n[t] = MaxChunks
        /\ c_outcome[3 - t] = "none" /\ c_pc[3 - t] = "idle"
        /\ ~c_cursor[t]
        /\ c_work = documents
        /\ RowsOf(File(t)) = <<>>
        /\ model # 0

====
